---- MODULE Spec2Model ----
(***************************************************************************)
(* Jobly backend: the SQL clause builders (helpers/sql.js), the Job and    *)
(* User models and the /jobs routes, as a state machine over the store.    *)
(*                                                                         *)
(* JavaScript values are tagged records [t |-> type, v |-> payload]; a JS  *)
(* string value is a sequence of one-character strings, so that trim() and *)
(* the unary + coercion are computed character by character.  Object keys, *)
(* column names and the SQL text are TLA+ strings built with \o exactly as *)
(* the template literals build them.  A JS object carries the sequence of  *)
(* its own enumerable properties [k |-> key, v |-> value] in iteration     *)
(* order.                                                                  *)
(*                                                                         *)
(* Spec runs Job.create, POST /jobs and GET /jobs against the store;       *)
(* SpecUpdate applies sqlForPartialUpdate, Job.update and User.update to   *)
(* every input of a bounded set; SpecFilter does so for sqlForFilter and   *)
(* GET /companies; SpecFind does so for Job.findAll and GET /jobs on every *)
(* jobs table of a bounded set.  SpecStore interleaves the operations that *)
(* create, move and delete companies, jobs, users and applications, and    *)
(* SpecJob follows the equity of a job through Job.create, Job.update and  *)
(* Job.get.  SpecUser runs the User model, SpecAdmin the writing routes of *)
(* /jobs as requested by every principal, and SpecApply two calls of       *)
(* User.applyForJob whose queries interleave.                              *)
(***************************************************************************)
EXTENDS Integers, Sequences, FiniteSets, TLC

VARIABLES
    companies,  \* the companies table: handle -> row
    jobs,       \* the jobs table: id -> row
    users,      \* the users table: username -> row
    applications, \* the applications table: the <<username, job_id>> rows
    nextId,     \* the jobs_id_seq serial
    args,       \* the call being made: the function or route and its inputs
    ret,        \* what the call returned or threw (NoRet while pending)
    nq          \* number of db.query calls the last call issued

vars == <<companies, jobs, users, applications, nextId, args, ret, nq>>

(***************************************************************************)
(* Bounds of the model.                                                    *)
(***************************************************************************)
\* the most keys of an update mapping
MaxUpdateKeys == 2
\* the most fields of a filter mapping
MaxFilterKeys == 3
\* the largest job id the serial hands out
MaxJobs == 2
\* the most parameters of a GET /jobs query string
MaxQueryKeys == 2

(***************************************************************************)
(* JavaScript values.                                                      *)
(***************************************************************************)
Null == [t |-> "null"]
Undefined == [t |-> "undefined"]
NaN == [t |-> "NaN"]
Str(cs) == [t |-> "string", v |-> cs]
\* a JS number: v is its integer part and c its hundredths (0 for an integer)
Num(n) == [t |-> "number", v |-> n, c |-> 0]
Frac(n, hundredths) == [t |-> "number", v |-> n, c |-> hundredths]
Bool(b) == [t |-> "boolean", v |-> b]
Obj(props) == [t |-> "object", v |-> props]
NoRet == [ok |-> "pending"]

\* if (x) ...: the truthiness of a value
Truthy(x) ==
    CASE x.t = "string" -> x.v # <<>>
      [] x.t = "number" -> x.v # 0 \/ x.c # 0
      [] x.t = "boolean" -> x.v
      [] x.t = "object" -> TRUE
      [] OTHER -> FALSE

RECURSIVE Concat(_)
\* the characters of a JS string as text
Concat(cs) == IF cs = <<>> THEN "" ELSE Head(cs) \o Concat(Tail(cs))

Digits == <<"0", "1", "2", "3", "4", "5", "6", "7", "8", "9">>

DigitValue == [c \in {Digits[i] : i \in 1..10} |-> (CHOOSE i \in 1..10 : Digits[i] = c) - 1]

RECURSIVE DecimalText(_)
\* the decimal digits of a natural number
DecimalText(n) ==
    IF n < 10 THEN <<Digits[n + 1]>>
    ELSE Append(DecimalText(n \div 10), Digits[(n % 10) + 1])

\* the characters of a non-negative number: 5, 0.02, 0.5
NumberText(x) ==
    IF x.c = 0 THEN DecimalText(x.v)
    ELSE DecimalText(x.v) \o <<".">> \o
         (IF x.c % 10 = 0 THEN <<Digits[(x.c \div 10) + 1]>>
          ELSE <<Digits[(x.c \div 10) + 1], Digits[(x.c % 10) + 1]>>)

\* `${x}`: a value interpolated into a template literal
Template(x) ==
    CASE x.t = "string" -> Concat(x.v)
      [] x.t = "number" -> Concat(NumberText(x))
      [] x.t = "boolean" -> IF x.v THEN "true" ELSE "false"
      [] x.t = "NaN" -> "NaN"
      [] x.t = "null" -> "null"
      [] OTHER -> "undefined"

WhiteSpace == {" "}

RECURSIVE TrimStart(_)
TrimStart(cs) ==
    IF cs # <<>> /\ Head(cs) \in WhiteSpace THEN TrimStart(Tail(cs)) ELSE cs

RECURSIVE TrimEnd(_)
TrimEnd(cs) ==
    IF cs # <<>> /\ cs[Len(cs)] \in WhiteSpace
    THEN TrimEnd(SubSeq(cs, 1, Len(cs) - 1))
    ELSE cs

\* a faulty trim that leaves the text as it is
trimNothing(cs) == cs

\* String.prototype.trim
trim(cs) == TrimEnd(TrimStart(cs))

RECURSIVE Decimal(_)
\* the value of a sequence of decimal digits
Decimal(cs) ==
    IF cs = <<>> THEN 0
    ELSE 10 * Decimal(SubSeq(cs, 1, Len(cs) - 1)) + DigitValue[cs[Len(cs)]]

AllDigits(cs) == \A i \in 1..Len(cs) : cs[i] \in DOMAIN DigitValue

\* the numeric value of the text of a number with at most two decimals,
\* NaN for any other text; the empty text is 0
ParseNumber(s) ==
    LET dots == {i \in 1..Len(s) : s[i] = "."} IN
    IF dots = {} THEN (IF AllDigits(s) THEN Num(Decimal(s)) ELSE NaN)
    ELSE
        LET d == CHOOSE i \in dots : TRUE
            whole == SubSeq(s, 1, d - 1)
            frac == SubSeq(s, d + 1, Len(s))
        IN
        IF Cardinality(dots) = 1 /\ AllDigits(whole) /\ AllDigits(frac)
           /\ Len(whole) + Len(frac) > 0 /\ Len(frac) <= 2
        THEN Frac(Decimal(whole),
                  IF Len(frac) = 1 THEN 10 * Decimal(frac) ELSE Decimal(frac))
        ELSE NaN

\* +x: the unary plus coercion to a number
ToNumber(x) ==
    CASE x.t = "number" -> x
      [] x.t = "boolean" -> Num(IF x.v THEN 1 ELSE 0)
      [] x.t = "null" -> Num(0)
      [] x.t = "string" -> ParseNumber(trim(x.v))
      [] OTHER -> NaN

\* a <= b on two coerced numbers: false when either is NaN
NumLeq(a, b) ==
    a.t = "number" /\ b.t = "number" /\ 100 * a.v + a.c <= 100 * b.v + b.c

(***************************************************************************)
(* JavaScript objects.                                                     *)
(***************************************************************************)
\* Object.keys(obj)
ObjectKeys(obj) == [i \in 1..Len(obj.v) |-> obj.v[i].k]

\* Object.values(obj)
ObjectValues(obj) == [i \in 1..Len(obj.v) |-> obj.v[i].v]

\* Object.hasOwnProperty.call(obj, key)
HasOwn(obj, key) == \E i \in 1..Len(obj.v) : obj.v[i].k = key

\* obj[key]
Prop(obj, key) ==
    IF HasOwn(obj, key)
    THEN obj.v[CHOOSE i \in 1..Len(obj.v) : obj.v[i].k = key].v
    ELSE Undefined

\* a faulty assignment that leaves the object as it is
SetPropNothing(obj, key, value) == obj

\* obj[key] = value: replaces in place, or appends a new last property
SetProp(obj, key, value) ==
    IF HasOwn(obj, key)
    THEN Obj([i \in 1..Len(obj.v) |->
                IF obj.v[i].k = key THEN [k |-> key, v |-> value] ELSE obj.v[i]])
    ELSE Obj(Append(obj.v, [k |-> key, v |-> value]))

RECURSIVE Join(_, _)
\* Array.prototype.join on an array of strings
Join(parts, sep) ==
    IF parts = <<>> THEN ""
    ELSE IF Len(parts) = 1 THEN parts[1]
    ELSE parts[1] \o sep \o Join(Tail(parts), sep)

\* throw new <cls>(message)
Throw(cls, message) == [ok |-> FALSE, error |-> cls, message |-> message]

(***************************************************************************)
(* helpers/sql.js: sqlForPartialUpdate                                     *)
(***************************************************************************)
\* a faulty lookup that never consults the column mapping
ColumnNameUnmapped(jsToSql, colName) == colName

\* jsToSql[colName] || colName, for a column mapping whose values are names
ColumnName(jsToSql, colName) ==
    IF Truthy(Prop(jsToSql, colName))
    THEN Template(Prop(jsToSql, colName))
    ELSE colName

\* a faulty builder that lacks the keys.length check
sqlForPartialUpdateUnchecked(dataToUpdate, jsToSql) ==
    LET keys == ObjectKeys(dataToUpdate) IN
    IF jsToSql = Undefined /\ Len(keys) > 0
    THEN Throw("TypeError", "Cannot read properties of undefined")
    ELSE
        LET cols == [idx \in 1..Len(keys) |->
                "\"" \o ColumnName(jsToSql, keys[idx]) \o "\"=$" \o Template(Num(idx))]
        IN [ok |-> TRUE,
            setCols |-> Join(cols, ", "),
            values |-> ObjectValues(dataToUpdate)]

sqlForPartialUpdate(dataToUpdate, jsToSql) ==
    LET keys == ObjectKeys(dataToUpdate) IN
    IF Len(keys) = 0 THEN Throw("BadRequestError", "No data")
    ELSE IF jsToSql = Undefined
    THEN Throw("TypeError", "Cannot read properties of undefined")
    ELSE
        LET cols == [idx \in 1..Len(keys) |->
                "\"" \o ColumnName(jsToSql, keys[idx]) \o "\"=$" \o Template(Num(idx))]
        IN [ok |-> TRUE,
            setCols |-> Join(cols, ", "),
            values |-> ObjectValues(dataToUpdate)]

(***************************************************************************)
(* helpers/sql.js: sqlForFilter                                            *)
(***************************************************************************)
\* the fields table: per entity, the recognized filter fields
fields ==
    [companies |->
        [nameLike |-> [dbName |-> "name", type |-> "string"],
         minEmployees |-> [dbName |-> "num_employees", type |-> "integer", comparison |-> ">="],
         maxEmployees |-> [dbName |-> "num_employees", type |-> "integer", comparison |-> "<="]],
     jobs |->
        [title |-> [dbName |-> "title", type |-> "string"],
         minSalary |-> [dbName |-> "salary", type |-> "integer", comparison |-> ">="],
         hasEquity |-> [dbName |-> "equity"]]]

\* a faulty cross-field check that rejects max < min only
MinMaxRejectedStrict(dataForFilter) ==
    /\ HasOwn(dataForFilter, "minEmployees")
    /\ HasOwn(dataForFilter, "maxEmployees")
    /\ NumLeq(ToNumber(Prop(dataForFilter, "maxEmployees")),
              ToNumber(Prop(dataForFilter, "minEmployees")))
    /\ ~NumLeq(ToNumber(Prop(dataForFilter, "minEmployees")),
               ToNumber(Prop(dataForFilter, "maxEmployees")))

\* the cross-field check made before anything is built: both bounds are
\* present and +max <= +min
MinMaxRejected(dataForFilter) ==
    /\ HasOwn(dataForFilter, "minEmployees")
    /\ HasOwn(dataForFilter, "maxEmployees")
    /\ NumLeq(ToNumber(Prop(dataForFilter, "maxEmployees")),
              ToNumber(Prop(dataForFilter, "minEmployees")))

MinMaxMessage(dataForFilter) ==
    "Filter is incorrect: 'minEmployees', "
        \o Template(Prop(dataForFilter, "minEmployees"))
        \o ", is NOT less than 'maxEmployees', "
        \o Template(Prop(dataForFilter, "maxEmployees")) \o "."

\* a faulty message that names the entity where the field belongs
NotPossibleMessageSwapped(table, colName) ==
    "Filtering '" \o colName \o "' by '" \o table \o "' is not possible."

NotPossibleMessage(table, colName) ==
    "Filtering '" \o table \o "' by '" \o colName \o "' is not possible."

\* a faulty hasEquity branch that pushes the value as a parameter
HasEquityPushed(dbName, value, valuesOut) ==
    [ok |-> TRUE,
     clause |-> IF Truthy(value) THEN dbName \o " > 0" ELSE dbName \o " >= 0",
     valuesOut |-> Append(valuesOut, value)]

\* the branch of the map callback taken for hasEquity: not parameterized,
\* nothing pushed
HasEquity(dbName, value, valuesOut) ==
    [ok |-> TRUE,
     clause |-> IF Truthy(value) THEN dbName \o " > 0" ELSE dbName \o " >= 0",
     valuesOut |-> valuesOut]

\* the map callback of sqlForFilter on one key, given the values pushed so
\* far: the clause it returns and the values afterwards, or what it throws
FilterCallback(dataForFilter, table, colName, valuesOut) ==
    IF colName \notin DOMAIN fields[table]
    THEN Throw("BadRequestError", NotPossibleMessage(table, colName))
    ELSE
        LET f == fields[table][colName]
            value == Prop(dataForFilter, colName)
            n == Template(Num(Len(valuesOut) + 1))
        IN
        IF colName = "hasEquity"
        THEN HasEquity(f.dbName, value, valuesOut)
        ELSE IF "type" \in DOMAIN f /\ f.type = "string"
        THEN [ok |-> TRUE, clause |-> f.dbName \o " ILIKE $" \o n,
              valuesOut |-> Append(valuesOut, Str(<<"%">> \o trim(value.v) \o <<"%">>))]
        ELSE IF "type" \in DOMAIN f /\ f.type = "integer"
        THEN [ok |-> TRUE, clause |-> f.dbName \o " " \o f.comparison \o " $" \o n,
              valuesOut |-> Append(valuesOut, ToNumber(value))]
        ELSE Throw("BadRequestError", NotPossibleMessage(table, colName))

RECURSIVE FilterMap(_, _, _, _, _)
\* keys.map(callback) from key i on: the clauses and values, or the first throw
FilterMap(dataForFilter, table, i, cols, valuesOut) ==
    LET keys == ObjectKeys(dataForFilter)
        \* r: what the callback returned or threw on key i
        rest(r) ==
            IF ~r.ok THEN r
            ELSE FilterMap(dataForFilter, table, i + 1, Append(cols, r.clause), r.valuesOut)
    IN
    IF i > Len(keys) THEN [ok |-> TRUE, cols |-> cols, valuesOut |-> valuesOut]
    ELSE rest(FilterCallback(dataForFilter, table, keys[i], valuesOut))

\* a faulty fall-through that treats the absence of a filter as an error
NoFilterRejected == Throw("BadRequestError", "No data")

\* the fall-through return: no clause and no values
NoFilter == [ok |-> TRUE, whereClause |-> "", values |-> <<>>]

sqlForFilter(dataForFilter, table) ==
    LET \* m: what keys.map(...) produced or threw
        result(m) ==
            IF ~m.ok THEN m
            ELSE [ok |-> TRUE,
                  whereClause |-> "WHERE " \o Join(m.cols, " AND "),
                  values |-> m.valuesOut]
    IN
    IF Truthy(dataForFilter) /\ Len(ObjectKeys(dataForFilter)) > 0
    THEN
        IF MinMaxRejected(dataForFilter)
        THEN Throw("BadRequestError", MinMaxMessage(dataForFilter))
        ELSE result(FilterMap(dataForFilter, table, 1, <<>>, <<>>))
    ELSE NoFilter

(***************************************************************************)
(* The inputs the builders are applied to.                                 *)
(***************************************************************************)
KeysOf(props) == {props[i].k : i \in 1..Len(props)}

RECURSIVE PropSeqs(_, _, _)
\* the property lists of at most n distinct keys of K, key k valued in V[k]
PropSeqs(K, V, n) ==
    IF n = 0 THEN {<<>>}
    ELSE LET prev == PropSeqs(K, V, n - 1) IN
         prev \cup UNION {UNION {{Append(o, [k |-> key, v |-> val]) : val \in V[key]}
                                  : key \in K \ KeysOf(o)} : o \in prev}

UpdateKeys == {"firstName", "lastName", "email"}

UpdateValues == [key \in UpdateKeys |-> {Str(<<"A", "l">>), Num(32)}]

\* a column mapping with entries for keys of the data and for others
JsToSqlProps ==
    <<[k |-> "firstName", v |-> Str(<<"f", "i", "r", "s", "t", "_", "n", "a", "m", "e">>)],
      [k |-> "lastName", v |-> Str(<<"l", "a", "s", "t", "_", "n", "a", "m", "e">>)],
      [k |-> "firstNameX", v |-> Str(<<"f", "i", "r", "s", "t", "_", "n", "a", "m", "e">>)]>>

\* the column mappings: every part of JsToSqlProps, and the omitted argument
JsToSqls ==
    {Obj(SelectSeq(JsToSqlProps, LAMBDA p : p.k \in S)) : S \in SUBSET KeysOf(JsToSqlProps)}
        \cup {Undefined}

UpdateInputs ==
    {[fn |-> "sqlForPartialUpdate", dataToUpdate |-> Obj(d), jsToSql |-> m] :
        d \in PropSeqs(UpdateKeys, UpdateValues, MaxUpdateKeys), m \in JsToSqls}

FilterKeys ==
    {"nameLike", "minEmployees", "maxEmployees", "title", "minSalary", "hasEquity",
     "invalidField"}

Texts == {Str(<<"n", "e", "t", " ">>), Str(<<" ", "j", "1">>)}
Integers2 == {Str(<<"5">>), Str(<<"5", "0">>)}
Booleans == {Str(<<"t", "r", "u", "e">>), Str(<<"f", "a", "l", "s", "e">>),
             Bool(TRUE), Bool(FALSE)}

\* the values a filter field arrives with: query-string texts, and booleans
FilterValues ==
    [key \in FilterKeys |->
        CASE key \in {"nameLike", "title"} -> Texts
          [] key \in {"minEmployees", "maxEmployees", "minSalary"} -> Integers2
          [] key = "hasEquity" -> Booleans
          [] OTHER -> {Str(<<"x">>)}]

Tables == {"companies", "jobs"}

FilterInputs ==
    {[fn |-> "sqlForFilter", dataForFilter |-> d, table |-> tb] :
        d \in {Obj(o) : o \in PropSeqs(FilterKeys, FilterValues, MaxFilterKeys)}
                \cup {Null, Undefined},
        tb \in Tables}

(***************************************************************************)
(* The store: PostgreSQL behind db.query.  A row is a record of column     *)
(* values; integer columns come back as numbers, NUMERIC columns as text,  *)
(* and json_agg serialises a NUMERIC as a JSON number.                     *)
(***************************************************************************)
\* the companies, in ORDER BY handle order
HandleOrder == <<"c1", "d1", "f1">>

SeedCompanies ==
    ("c1" :> [name |-> Str(<<"C", "1">>), numEmployees |-> Num(1),
              description |-> Str(<<"D", "e", "s", "c", "1">>),
              logoUrl |-> Str(<<"h", "t", "t", "p", ":", "/", "/", "c", "1">>)])
    @@ ("d1" :> [name |-> Str(<<"D", "1">>), numEmployees |-> Num(4),
                 description |-> Str(<<"D", "e", "s", "c", "d", "1">>),
                 logoUrl |-> Str(<<"h", "t", "t", "p", ":", "/", "/", "d", "1">>)])

SeedUsers ==
    ("u1" :> [password |-> Str(<<"#", "p", "w", "1">>), first_name |-> Str(<<"U", "1", "F">>),
              last_name |-> Str(<<"U", "1", "L">>), email |-> Str(<<"u", "1", "@">>),
              is_admin |-> Bool(FALSE)])
    @@ ("u4" :> [password |-> Str(<<"#", "p", "w", "4">>), first_name |-> Str(<<"U", "4", "F">>),
                 last_name |-> Str(<<"U", "4", "L">>), email |-> Str(<<"u", "4", "@">>),
                 is_admin |-> Bool(TRUE)])

SeedJobs ==
    1 :> [company_handle |-> "c1", title |-> Str(<<"j", "1">>),
          salary |-> Num(1), equity |-> Null]

\* commonBeforeAll: the companies, the users and a first job
InitStore ==
    /\ companies = SeedCompanies
    /\ jobs = SeedJobs
    /\ users = SeedUsers
    /\ applications = {}
    /\ nextId = 2
    /\ nq = 0
    /\ ret = NoRet

\* a database error as the pg driver raises it
DbError(code, message) ==
    [ok |-> FALSE, error |-> "DatabaseError", code |-> code, message |-> message]

LowerCase(c) ==
    CASE c = "C" -> "c" [] c = "D" -> "d" [] c = "J" -> "j" [] c = "N" -> "n" [] OTHER -> c

RECURSIVE Like(_, _)
\* text LIKE pattern: % matches any run of characters, _ any one character
Like(cs, pat) ==
    IF pat = <<>> THEN cs = <<>>
    ELSE IF Head(pat) = "%"
    THEN \E i \in 0..Len(cs) : Like(SubSeq(cs, i + 1, Len(cs)), Tail(pat))
    ELSE /\ cs # <<>>
         /\ Head(pat) = "_" \/ Head(pat) = Head(cs)
         /\ Like(Tail(cs), Tail(pat))

\* text ILIKE pattern
ILike(cs, pat) ==
    Like([i \in 1..Len(cs) |-> LowerCase(cs[i])], [i \in 1..Len(pat) |-> LowerCase(pat[i])])

\* the $n placeholders of a query text
Placeholders == {"$" \o Template(Num(i)) : i \in 1..3}

PlaceholderIndex(arg) == CHOOSE i \in 1..3 : arg = "$" \o Template(Num(i))

\* the conditions of the WHERE grammar the store is sent, per queried table
CondShapes ==
    [jobs |->
        {[col |-> "title", op |-> "ILIKE", arg |-> p] : p \in Placeholders}
        \cup {[col |-> "salary", op |-> o, arg |-> p] : o \in {">=", "<="}, p \in Placeholders}
        \cup {[col |-> "equity", op |-> o, arg |-> "0"] : o \in {">", ">="}},
     companies |->
        {[col |-> "name", op |-> "ILIKE", arg |-> p] : p \in Placeholders}
        \cup {[col |-> "num_employees", op |-> o, arg |-> p] :
                o \in {">=", "<="}, p \in Placeholders}]

CondText(c) == c.col \o " " \o c.op \o " " \o c.arg

RECURSIVE Conjunction(_)
Conjunction(cs) ==
    IF Len(cs) = 1 THEN CondText(cs[1])
    ELSE CondText(cs[1]) \o " AND " \o Conjunction(Tail(cs))

WhereText(cs) == IF cs = <<>> THEN "" ELSE "WHERE " \o Conjunction(cs)

\* every WHERE text of at most three conditions with its parse
WhereParses(shapes) ==
    {<<WhereText(cs), cs>> : cs \in UNION {[1..m -> shapes] : m \in 0..3}}

JobsWhereTable == WhereParses(CondShapes.jobs)

CompaniesWhereTable == WhereParses(CondShapes.companies)

\* the store's reading of a WHERE text: its conditions
ParseWhere(tb, text) ==
    LET parses == IF tb = "jobs" THEN JobsWhereTable ELSE CompaniesWhereTable
    IN (CHOOSE p \in parses : p[1] = text)[2]

\* one condition on one row, NULL comparing as unknown (not true)
EvalCond(row, c, values) ==
    LET x == row[c.col]
        y == IF c.arg = "0" THEN Num(0) ELSE values[PlaceholderIndex(c.arg)]
    IN
    /\ x # Null
    /\ CASE c.op = "ILIKE" -> ILike(x.v, y.v)
         [] c.op = ">=" -> NumLeq(y, x)
         [] c.op = "<=" -> NumLeq(x, y)
         [] OTHER -> NumLeq(y, x) /\ ~NumLeq(x, y)

EvalWhere(row, conds, values) == \A i \in 1..Len(conds) : EvalCond(row, conds[i], values)

RECURSIVE Ascending(_)
\* a finite set of numbers in ascending order
Ascending(S) ==
    IF S = {} THEN <<>>
    ELSE LET m == CHOOSE x \in S : \A y \in S : x <= y IN <<m>> \o Ascending(S \ {m})

\* j.* of one job as json_agg serialises it
JobJson(id) ==
    [id |-> Num(id), title |-> jobs[id].title, salary |-> jobs[id].salary,
     equity |-> jobs[id].equity, company_handle |-> jobs[id].company_handle]

\* the grouped SELECT of Job.findAll: one row per company of the join that
\* passes the WHERE, ordered by handle, its jobs aggregated
SelectCompanyJobs(joinType, whereClause, values) ==
    LET jobless(h) == \A id \in DOMAIN jobs : jobs[id].company_handle # h
        \* matching: per company, the ids of its jobs that pass the WHERE
        agg(ids) == IF ids = <<>> THEN <<Null>>
                    ELSE [i \in 1..Len(ids) |-> JobJson(ids[i])]
        row(h, matching) ==
            [handle |-> h,
             name |-> companies[h].name,
             numEmployees |-> companies[h].numEmployees,
             description |-> companies[h].description,
             logoUrl |-> companies[h].logoUrl,
             jobs |-> agg(Ascending(matching[h]))]
        \* a LEFT join keeps a company without jobs as one all-NULL job row,
        \* which passes only an empty WHERE
        kept(conds, matching) ==
            SelectSeq(HandleOrder, LAMBDA h :
                /\ h \in DOMAIN companies
                /\ \/ matching[h] # {}
                   \/ joinType = "LEFT " /\ jobless(h) /\ conds = <<>>)
        rows(hs, matching) == [i \in 1..Len(hs) |-> row(hs[i], matching)]
        grouped(conds, matching) == rows(kept(conds, matching), matching)
        select(conds) ==
            grouped(conds, [h \in DOMAIN companies |->
                              {id \in DOMAIN jobs :
                                  /\ jobs[id].company_handle = h
                                  /\ EvalWhere(jobs[id], conds, values)}])
    IN select(ParseWhere("jobs", whereClause))

(***************************************************************************)
(* models/jobModel.js                                                      *)
(***************************************************************************)
\* a NUMERIC column as the pg driver returns it: its text, or null
PgNumeric(x) == IF x = Null THEN Null ELSE Str(NumberText(x))

\* a faulty normalisation that tests the number and not the text for truth
PlusIfNonZero(x) == IF Truthy(x) /\ Truthy(ToNumber(x)) THEN ToNumber(x) ELSE x

\* x ? +x : x
PlusIfTruthy(x) == IF Truthy(x) THEN ToNumber(x) ELSE x

\* a parameter bound to a nullable column: undefined is sent as NULL
PgParam(x) == IF x = Undefined THEN Null ELSE x

\* the decimal a NUMERIC column stores for a parameter: a number as it is,
\* the text of a number as the number it writes
NumericIn(x) == IF x.t = "string" THEN ParseNumber(trim(x.v)) ELSE x

ForeignKeyMessage ==
    "insert or update on table \"jobs\" violates foreign key constraint \"jobs_company_handle_fkey\""

\* Job.create: what it returns or throws, and the store afterwards
JobCreate(data) ==
    LET companyHandle == Prop(data, "companyHandle")
        title == Prop(data, "title")
        salary == Prop(data, "salary")
        equity == Prop(data, "equity")
    IN
    IF Template(companyHandle) \notin DOMAIN companies
    THEN \* the INSERT fails on jobs_company_handle_fkey
         [ret |-> DbError("23503", ForeignKeyMessage),
          jobs |-> jobs, nextId |-> nextId, nq |-> 1]
    ELSE
        LET \* row: the inserted row; job: result.rows[0]
            inserted(row) ==
                [ret |-> [ok |-> TRUE,
                          value |-> [id |-> Num(nextId),
                                     companyHandle |-> row.company_handle,
                                     title |-> row.title,
                                     salary |-> PlusIfTruthy(row.salary),
                                     equity |-> PlusIfTruthy(PgNumeric(row.equity))]],
                 jobs |-> jobs @@ (nextId :> row),
                 nextId |-> nextId + 1,
                 nq |-> 1]
        IN inserted([company_handle |-> Template(companyHandle), title |-> title,
                     salary |-> PgParam(salary), equity |-> NumericIn(PgParam(equity))])

\* Company.get: the company with its jobs, or NotFoundError
CompanyGet(handle) ==
    LET h == Template(handle)
        own(ids) == [i \in 1..Len(ids) |->
                        [id |-> Num(ids[i]), title |-> jobs[ids[i]].title,
                         salary |-> jobs[ids[i]].salary, equity |-> jobs[ids[i]].equity]]
    IN
    IF h \notin DOMAIN companies
    THEN Throw("NotFoundError", "No company: " \o h)
    ELSE [ok |-> TRUE,
          value |-> [handle |-> h,
                     name |-> companies[h].name,
                     description |-> companies[h].description,
                     numEmployees |-> companies[h].numEmployees,
                     logoUrl |-> companies[h].logoUrl,
                     jobs |-> own(Ascending({id \in DOMAIN jobs :
                                                jobs[id].company_handle = h}))]]

\* delete job.company_handle on a job of the aggregate
WithoutCompanyHandle(job) ==
    [id |-> job.id, title |-> job.title, salary |-> job.salary, equity |-> job.equity]

\* a faulty forEach that deletes no key of a company
StripRowsKeepingAll(rows, handle) ==
    [i \in 1..Len(rows) |->
        [rows[i] EXCEPT !.jobs = [k \in 1..Len(rows[i].jobs) |->
                                    WithoutCompanyHandle(rows[i].jobs[k])]]]

\* the forEach of Job.findAll over the rows, when the first row has a job
StripRows(rows, handle) ==
    [i \in 1..Len(rows) |->
        LET company == rows[i]
            js == [k \in 1..Len(company.jobs) |-> WithoutCompanyHandle(company.jobs[k])]
        IN IF ~Truthy(handle)
           THEN [handle |-> company.handle, name |-> company.name,
                 numEmployees |-> company.numEmployees, jobs |-> js]
           ELSE [company EXCEPT !.jobs = js]]

\* a faulty outcome that reports a missing company where no job matched
NoJobsFoundAsNoCompany == Throw("NotFoundError", "No company: ")

\* what the global listing throws when filters are in effect and no row came
NoJobsFound == Throw("NotFoundError", "No jobs were found due to filter settings")

\* Job.findAll: what it returns or throws, the caller's filterValues object
\* afterwards, and the number of queries issued
JobFindAll(handle, joinType, filterValues) ==
    LET filtersInAffect == Len(ObjectKeys(filterValues)) > 0
        out(r, fv, n) == [ret |-> r, filterValues |-> fv, nq |-> n]
        \* c: what Company.get returned or threw
        companyOnly(c) ==
            IF c.ok THEN [ok |-> TRUE, value |-> <<[c.value EXCEPT !.jobs = <<>>]>>] ELSE c
        \* rows: companyJobs.rows
        queried(rows, fv) ==
            IF Len(rows) = 0
            THEN IF filtersInAffect
                 THEN IF Truthy(handle)
                      THEN out(companyOnly(CompanyGet(handle)), fv, 2)
                      ELSE out(NoJobsFound, fv, 1)
                 ELSE out(Throw("NotFoundError", "No company: " \o Template(handle)), fv, 1)
            ELSE IF rows[1].jobs[1] # Null
            THEN IF \E i \in 1..Len(rows) : rows[i].jobs[1] = Null
                 THEN \* delete job.company_handle on the null of a jobless company
                      out(Throw("TypeError", "Cannot convert undefined or null to object"),
                          fv, 1)
                 ELSE out([ok |-> TRUE, value |-> StripRows(rows, handle)], fv, 1)
            ELSE \* rows[0].jobs is [null]: pop it
                 out([ok |-> TRUE,
                      value |-> [i \in 1..Len(rows) |->
                                    IF i = 1 THEN [rows[1] EXCEPT !.jobs = <<>>]
                                    ELSE rows[i]]], fv, 1)
        \* filter: what sqlForFilter returned or threw
        filtered(filter, fv) ==
            IF ~filter.ok THEN out(filter, fv, 0)
            ELSE queried(SelectCompanyJobs(joinType, filter.whereClause, filter.values), fv)
        \* fv: filterValues after filterValues.handle = handle
        withHandle(fv) == filtered(sqlForFilter(fv, "jobs"), fv)
    IN withHandle(IF Truthy(handle)
                  THEN SetProp(filterValues, "handle", handle)
                  ELSE filterValues)

\* the columns an UPDATE may assign, per table
Columns ==
    [jobs |-> {"id", "title", "salary", "equity", "company_handle"},
     users |-> {"username", "password", "first_name", "last_name", "email", "is_admin"}]

RECURSIVE SetText(_, _)
\* the SET list assigning $i.. to the columns cs
SetText(cs, i) ==
    IF Len(cs) = 1 THEN "\"" \o cs[1] \o "\"=$" \o Template(Num(i))
    ELSE "\"" \o cs[1] \o "\"=$" \o Template(Num(i)) \o ", " \o SetText(Tail(cs), i + 1)

\* every SET text of at most three columns with its parse
SetParses(columns) ==
    {<<SetText(cs, 1), cs>> : cs \in UNION {[1..m -> columns] : m \in 1..3}}

JobsSetTable == SetParses(Columns.jobs)

UsersSetTable == SetParses(Columns.users)

\* the store's reading of a SET text: its columns, or <<>> when some name
\* is no column of the table
ParseSet(tb, text) ==
    LET parses == IF tb = "jobs" THEN JobsSetTable ELSE UsersSetTable IN
    IF \E p \in parses : p[1] = text
    THEN (CHOOSE p \in parses : p[1] = text)[2]
    ELSE <<>>

\* the value a column of jobs stores for a parameter
JobColumnIn(column, x) ==
    CASE column = "equity" -> NumericIn(PgParam(x))
      [] column = "company_handle" -> Template(x)
      [] OTHER -> PgParam(x)

RECURSIVE Assign(_, _, _, _)
\* a row with values[i..] assigned to columns[i..]
Assign(row, columns, values, i) ==
    IF i > Len(columns) THEN row
    ELSE Assign([row EXCEPT ![columns[i]] = values[i]], columns, values, i + 1)

\* Job.update: what it returns or throws, and the jobs table afterwards
JobUpdate(id, data) ==
    LET out(r, js, n) == [ret |-> r, jobs |-> js, nq |-> n]
        \* job: result.rows[0], the row after the UPDATE
        updated(job) ==
            out([ok |-> TRUE,
                 value |-> [companyHandle |-> job.company_handle,
                            id |-> Num(id),
                            title |-> job.title,
                            salary |-> job.salary,
                            equity |-> PlusIfTruthy(PgNumeric(job.equity))]],
                [jobs EXCEPT ![id] = job], 1)
        \* job: the row as assigned; the UPDATE fails on jobs_company_handle_fkey
        \* when its company_handle names no company
        checked(job) ==
            IF job.company_handle \notin DOMAIN companies
            THEN out(DbError("23503", ForeignKeyMessage), jobs, 1)
            ELSE updated(job)
        \* columns: the columns the SET list names
        sent(columns, values) ==
            IF columns = <<>>
            THEN out(DbError("42703", "column does not exist"), jobs, 1)
            ELSE IF id \notin DOMAIN jobs
            THEN \* result.rows is [] and never === 0: job is undefined
                 out(Throw("TypeError", "Cannot read properties of undefined"), jobs, 1)
            ELSE checked(Assign(jobs[id], columns,
                                [i \in 1..Len(columns) |-> JobColumnIn(columns[i], values[i])],
                                1))
        \* built: what sqlForPartialUpdate returned or threw
        after(built) ==
            IF ~built.ok THEN out(built, jobs, 0)
            ELSE sent(ParseSet("jobs", built.setCols), built.values)
    IN after(sqlForPartialUpdate(data,
                Obj(<<[k |-> "companyHandle",
                       v |-> Str(<<"c", "o", "m", "p", "a", "n", "y", "_",
                                   "h", "a", "n", "d", "l", "e">>)]>>)))

\* DELETE FROM jobs of the given ids: the applications to them go with them
\* (ON DELETE CASCADE of applications.job_id)
DeleteJobs(ids) ==
    [jobs |-> [id \in DOMAIN jobs \ ids |-> jobs[id]],
     applications |-> {a \in applications : a[2] \notin ids}]

\* a faulty Job.get that joins the job to the first company of the table
JobGetFirstCompany(id) ==
    LET first == CHOOSE h \in DOMAIN companies :
                    \A i, k \in 1..Len(HandleOrder) :
                        (HandleOrder[i] = h /\ HandleOrder[k] \in DOMAIN companies) => i <= k
    IN
    IF id \notin DOMAIN jobs \/ jobs[id].company_handle \notin DOMAIN companies
    THEN [ret |-> Throw("NotFoundError", "No job: " \o Template(Num(id))), nq |-> 1]
    ELSE [ret |-> [ok |-> TRUE,
                   value |-> [handle |-> first,
                              name |-> companies[first].name,
                              numEmployees |-> companies[first].numEmployees,
                              job |-> [id |-> Num(id),
                                       title |-> jobs[id].title,
                                       salary |-> jobs[id].salary,
                                       equity |-> PlusIfTruthy(PgNumeric(jobs[id].equity))]]],
          nq |-> 1]

\* Job.get: the job under the summary of its company, or NotFoundError; the
\* rows are those of jobs JOIN companies with the id
JobGet(id) ==
    IF id \notin DOMAIN jobs \/ jobs[id].company_handle \notin DOMAIN companies
    THEN [ret |-> Throw("NotFoundError", "No job: " \o Template(Num(id))), nq |-> 1]
    ELSE [ret |-> [ok |-> TRUE,
                   value |-> [handle |-> jobs[id].company_handle,
                              name |-> companies[jobs[id].company_handle].name,
                              numEmployees |-> companies[jobs[id].company_handle].numEmployees,
                              job |-> [id |-> Num(id),
                                       title |-> jobs[id].title,
                                       salary |-> jobs[id].salary,
                                       equity |-> PlusIfTruthy(PgNumeric(jobs[id].equity))]]],
          nq |-> 1]

\* a faulty Job.remove that deletes nothing
JobRemoveNothing(id) ==
    IF id \notin DOMAIN jobs
    THEN [ret |-> Throw("NotFoundError", "No job: " \o Template(Num(id))),
          jobs |-> jobs, applications |-> applications, nq |-> 1]
    ELSE [ret |-> [ok |-> TRUE, value |-> Undefined],
          jobs |-> jobs, applications |-> applications, nq |-> 1]

\* Job.remove: undefined or NotFoundError, and the store afterwards
JobRemove(id) ==
    IF id \notin DOMAIN jobs
    THEN [ret |-> Throw("NotFoundError", "No job: " \o Template(Num(id))),
          jobs |-> jobs, applications |-> applications, nq |-> 1]
    ELSE [ret |-> [ok |-> TRUE, value |-> Undefined],
          jobs |-> DeleteJobs({id}).jobs,
          applications |-> DeleteJobs({id}).applications,
          nq |-> 1]

(***************************************************************************)
(* models/user.js                                                          *)
(***************************************************************************)
\* bcrypt.hash(password, BCRYPT_WORK_FACTOR): the hash is marked by a
\* leading # and is never the password text
BcryptHash(password) == Str(<<"#">> \o password.v)

UserJsToSql ==
    Obj(<<[k |-> "firstName", v |-> Str(<<"f", "i", "r", "s", "t", "_", "n", "a", "m", "e">>)],
          [k |-> "lastName", v |-> Str(<<"l", "a", "s", "t", "_", "n", "a", "m", "e">>)],
          [k |-> "isAdmin", v |-> Str(<<"i", "s", "_", "a", "d", "m", "i", "n">>)]>>)

\* User.update: what it returns or throws, the caller's data object and the
\* users table afterwards
UserUpdate(username, data) ==
    LET out(r, d, us, n) == [ret |-> r, data |-> d, users |-> us, nq |-> n]
        \* user: result.rows[0], the row after the UPDATE
        updated(user, d) ==
            out([ok |-> TRUE,
                 value |-> [username |-> username,
                            firstName |-> user.first_name,
                            lastName |-> user.last_name,
                            email |-> user.email,
                            isAdmin |-> user.is_admin]],
                d, [users EXCEPT ![username] = user], 1)
        \* columns: the columns the SET list names
        sent(columns, values, d) ==
            IF columns = <<>>
            THEN out(DbError("42703", "column does not exist"), d, users, 1)
            ELSE IF username \notin DOMAIN users
            THEN out(Throw("NotFoundError", "No user: " \o username), d, users, 1)
            ELSE updated(Assign(users[username], columns, values, 1), d)
        \* built: what sqlForPartialUpdate returned or threw
        after(built, d) ==
            IF ~built.ok THEN out(built, d, users, 0)
            ELSE sent(ParseSet("users", built.setCols), built.values, d)
        \* d: data after the password is replaced by its hash
        hashed(d) == after(sqlForPartialUpdate(d, UserJsToSql), d)
    IN hashed(IF Truthy(Prop(data, "password"))
              THEN SetProp(data, "password", BcryptHash(Prop(data, "password")))
              ELSE data)

\* a faulty User.register that lacks the duplicate check and writes over the
\* row of the username
UserRegisterOverwriting(data) ==
    LET username == Template(Prop(data, "username"))
        row == [password |-> BcryptHash(Prop(data, "password")),
                first_name |-> Prop(data, "firstName"),
                last_name |-> Prop(data, "lastName"),
                email |-> Prop(data, "email"),
                is_admin |-> Prop(data, "isAdmin")]
    IN [ret |-> [ok |-> TRUE,
                 value |-> [username |-> username,
                            firstName |-> Prop(data, "firstName"),
                            lastName |-> Prop(data, "lastName"),
                            email |-> Prop(data, "email"),
                            isAdmin |-> Prop(data, "isAdmin")]],
        users |-> [u \in DOMAIN users \cup {username} |->
                        IF u = username THEN row ELSE users[u]],
        nq |-> 2]

\* a faulty User.authenticate that returns the row as selected
UserAuthenticateKeepingPassword(username, password) ==
    IF username \in DOMAIN users /\ users[username].password = BcryptHash(password)
    THEN [ret |-> [ok |-> TRUE,
                   value |-> [username |-> username,
                              password |-> users[username].password,
                              firstName |-> users[username].first_name,
                              lastName |-> users[username].last_name,
                              email |-> users[username].email,
                              isAdmin |-> users[username].is_admin]],
          nq |-> 1]
    ELSE [ret |-> Throw("UnauthorizedError", "Invalid username/password"), nq |-> 1]

\* User.authenticate: the user without the password when bcrypt.compare
\* finds the stored password to be the hash of the given one, or
\* UnauthorizedError
UserAuthenticate(username, password) ==
    IF username \in DOMAIN users /\ users[username].password = BcryptHash(password)
    THEN [ret |-> [ok |-> TRUE,
                   value |-> [username |-> username,
                              firstName |-> users[username].first_name,
                              lastName |-> users[username].last_name,
                              email |-> users[username].email,
                              isAdmin |-> users[username].is_admin]],
          nq |-> 1]
    ELSE [ret |-> Throw("UnauthorizedError", "Invalid username/password"), nq |-> 1]

\* User.register: the new user or BadRequestError, and the users afterwards
UserRegister(data) ==
    LET username == Template(Prop(data, "username")) IN
    IF username \in DOMAIN users
    THEN [ret |-> Throw("BadRequestError", "Duplicate username: " \o username),
          users |-> users, nq |-> 1]
    ELSE [ret |-> [ok |-> TRUE,
                   value |-> [username |-> username,
                              firstName |-> Prop(data, "firstName"),
                              lastName |-> Prop(data, "lastName"),
                              email |-> Prop(data, "email"),
                              isAdmin |-> Prop(data, "isAdmin")]],
          users |-> users @@ (username :>
                        [password |-> BcryptHash(Prop(data, "password")),
                         first_name |-> Prop(data, "firstName"),
                         last_name |-> Prop(data, "lastName"),
                         email |-> Prop(data, "email"),
                         is_admin |-> Prop(data, "isAdmin")]),
          nq |-> 2]

\* the foreign keys of applications an INSERT of (username, id) violates
ViolatedApplicationKeys(username, id) ==
    (IF id \in DOMAIN jobs THEN {} ELSE {"applications_job_id_fkey"})
    \cup (IF username \in DOMAIN users THEN {} ELSE {"applications_username_fkey"})

ApplicationKeyMessage(constraint) ==
    "insert or update on table \"applications\" violates foreign key constraint \""
        \o constraint \o "\""

\* the catch of User.applyForJob: the error thrown for an error of the INSERT
ApplyFailure(error, constraint, username, id) ==
    IF error.code = "23503"
    THEN IF constraint = "applications_job_id_fkey"
         THEN Throw("NotFoundError",
                    "Application NOT created: job id '" \o Template(Num(id))
                        \o "' was not found.")
         ELSE Throw("NotFoundError",
                    "Application NOT created: username '" \o username \o "' was not found.")
    ELSE [ok |-> FALSE, error |-> "ExpressError", status |-> 500, message |-> error.message]

\* a faulty User.applyForJob that lacks the duplicate check and whose INSERT
\* meets no foreign key
UserApplyForJobUnchecked(username, id) ==
    {[ret |-> [ok |-> TRUE, value |-> [job_id |-> Num(id)]],
      applications |-> applications \cup {<<username, id>>},
      nq |-> 2]}

\* User.applyForJob: the outcomes it may have (the store reports either
\* violated key when both are), each with the applications afterwards
UserApplyForJob(username, id) ==
    LET out(r, as, n) == [ret |-> r, applications |-> as, nq |-> n] IN
    IF <<username, id>> \in applications
    THEN {out(Throw("BadRequestError",
                    "Duplicate username: " \o username \o " has already applied for job "
                        \o Template(Num(id))),
              applications, 1)}
    ELSE IF ViolatedApplicationKeys(username, id) = {}
    THEN {out([ok |-> TRUE, value |-> [job_id |-> Num(id)]],
              applications \cup {<<username, id>>}, 2)}
    ELSE {out(ApplyFailure(DbError("23503", ApplicationKeyMessage(c)), c, username, id),
              applications, 2) : c \in ViolatedApplicationKeys(username, id)}

\* the arrangements of a finite set in a sequence
Orders(S) ==
    {f \in [1..Cardinality(S) -> S] : \A i, k \in 1..Cardinality(S) : i # k => f[i] # f[k]}

\* a faulty User.get that sets jobs whether or not the user has applied
UserGetAlwaysJobs(username) ==
    LET ids == {a[2] : a \in {b \in applications : b[1] = username}}
        user == [username |-> username,
                 firstName |-> users[username].first_name,
                 lastName |-> users[username].last_name,
                 email |-> users[username].email,
                 isAdmin |-> users[username].is_admin]
    IN
    IF username \notin DOMAIN users
    THEN {[ret |-> Throw("NotFoundError", "No user: " \o username), nq |-> 1]}
    ELSE {[ret |-> [ok |-> TRUE,
                    value |-> user @@ [jobs |-> [i \in 1..Cardinality(ids) |-> Num(order[i])]]],
           nq |-> 1] : order \in Orders(ids)}

\* User.get: the outcomes it may have, the rows of the join coming in any
\* order; jobs is set only when the user has applied
UserGet(username) ==
    LET ids == {a[2] : a \in {b \in applications : b[1] = username}}
        user == [username |-> username,
                 firstName |-> users[username].first_name,
                 lastName |-> users[username].last_name,
                 email |-> users[username].email,
                 isAdmin |-> users[username].is_admin]
    IN
    IF username \notin DOMAIN users
    THEN {[ret |-> Throw("NotFoundError", "No user: " \o username), nq |-> 1]}
    ELSE IF ids = {}
    THEN {[ret |-> [ok |-> TRUE, value |-> user], nq |-> 1]}
    ELSE {[ret |-> [ok |-> TRUE,
                    value |-> user @@ [jobs |-> [i \in 1..Cardinality(ids) |-> Num(order[i])]]],
           nq |-> 1] : order \in Orders(ids)}

\* User.findAll: the outcomes it may have, the users in ORDER BY username
\* order, json_agg taking the job ids of a user in any order; jobs is deleted
\* where the aggregate is [null]
UserFindAll ==
    LET names == SelectSeq(<<"u1", "u2", "u4">>, LAMBDA u : u \in DOMAIN users)
        ids(u) == {a[2] : a \in {b \in applications : b[1] = u}}
        user(u) == [username |-> u,
                    firstName |-> users[u].first_name,
                    lastName |-> users[u].last_name,
                    email |-> users[u].email,
                    isAdmin |-> users[u].is_admin]
        agg(u, order) == LET own == SelectSeq(order, LAMBDA id : id \in ids(u))
                         IN [i \in 1..Len(own) |-> Num(own[i])]
        row(u, order) == IF ids(u) = {} THEN user(u)
                         ELSE user(u) @@ [jobs |-> agg(u, order)]
    IN {[ret |-> [ok |-> TRUE, value |-> [i \in 1..Len(names) |-> row(names[i], order)]],
         nq |-> 1] : order \in Orders({a[2] : a \in applications})}

\* User.remove: undefined or NotFoundError, and the store afterwards; the
\* applications of the user go with the user (ON DELETE CASCADE)
UserRemove(username) ==
    IF username \notin DOMAIN users
    THEN [ret |-> Throw("NotFoundError", "No user: " \o username),
          users |-> users, applications |-> applications, nq |-> 1]
    ELSE [ret |-> [ok |-> TRUE, value |-> Undefined],
          users |-> [u \in DOMAIN users \ {username} |-> users[u]],
          applications |-> {a \in applications : a[1] # username},
          nq |-> 1]

(***************************************************************************)
(* The collaborators of the routes: the auth middleware, the JSON schemas, *)
(* the error handler of app.js and the Company model.                      *)
(***************************************************************************)
Principals == {"anonymous", "user", "admin"}

\* ensureAdmin: only an admin token passes
EnsureAdmin(principal) == principal = "admin"

IsText(x) == x.t = "string"
IsDigits(x) == x.t = "string" /\ AllDigits(x.v)

\* jsonschema.validate(body, jobNewSchema).valid
JobNewValid(body) ==
    /\ KeysOf(body.v) \subseteq {"title", "salary", "equity", "companyHandle"}
    /\ {"title", "companyHandle"} \subseteq KeysOf(body.v)
    /\ IsText(Prop(body, "title"))
    /\ IsText(Prop(body, "companyHandle")) /\ Len(Prop(body, "companyHandle").v) <= 25
    /\ HasOwn(body, "salary") =>
            Prop(body, "salary").t = "number" /\ Prop(body, "salary").c = 0
    /\ HasOwn(body, "equity") =>
            Prop(body, "equity").t = "number" /\ NumLeq(Prop(body, "equity"), Num(1))

\* jsonschema.validate(body, jobUpdateSchema).valid: title, salary and
\* equity only, no additional property
JobUpdateValid(body) ==
    /\ KeysOf(body.v) \subseteq {"title", "salary", "equity"}
    /\ HasOwn(body, "title") => IsText(Prop(body, "title"))
    /\ HasOwn(body, "salary") =>
            Prop(body, "salary").t = "number" /\ Prop(body, "salary").c = 0
    /\ HasOwn(body, "equity") =>
            Prop(body, "equity").t = "number" /\ NumLeq(Prop(body, "equity"), Num(1))

\* jsonschema.validate(query, jobFilterSchema).valid
JobFilterValid(query) ==
    /\ KeysOf(query.v) \subseteq {"title", "minSalary", "hasEquity"}
    /\ HasOwn(query, "title") => IsText(Prop(query, "title"))
    /\ HasOwn(query, "minSalary") => IsDigits(Prop(query, "minSalary"))
    /\ HasOwn(query, "hasEquity") => IsText(Prop(query, "hasEquity"))

\* jsonschema.validate(query, companyFilterSchema).valid
CompanyFilterValid(query) ==
    /\ KeysOf(query.v) \subseteq {"nameLike", "minEmployees", "maxEmployees"}
    /\ HasOwn(query, "nameLike") => IsText(Prop(query, "nameLike"))
    /\ HasOwn(query, "minEmployees") => IsDigits(Prop(query, "minEmployees"))
    /\ HasOwn(query, "maxEmployees") => IsDigits(Prop(query, "maxEmployees"))

SchemaError == Throw("BadRequestError", "instance does not validate")

\* the status the error handler answers an error with
StatusOf(err) ==
    CASE err.error = "BadRequestError" -> 400
      [] err.error = "UnauthorizedError" -> 401
      [] err.error = "NotFoundError" -> 404
      [] OTHER -> 500

\* next(err): the error handler's answer; passed is the error handed to next
ErrorResponse(err) ==
    [status |-> StatusOf(err), message |-> err.message, passed |-> err]

\* Company.findAll: the companies the filter keeps, ordered by name
CompanyFindAll(filterValues) ==
    LET row(h) == [name |-> companies[h].name,
                   num_employees |-> companies[h].numEmployees]
        found(hs) ==
            [ret |-> [ok |-> TRUE,
                      value |-> [i \in 1..Len(hs) |->
                                    [handle |-> hs[i],
                                     name |-> companies[hs[i]].name,
                                     description |-> companies[hs[i]].description,
                                     numEmployees |-> companies[hs[i]].numEmployees,
                                     logoUrl |-> companies[hs[i]].logoUrl]]],
             nq |-> 1]
        select(conds, values) ==
            found(SelectSeq(HandleOrder,
                    LAMBDA h : h \in DOMAIN companies /\ EvalWhere(row(h), conds, values)))
        \* filter: what sqlForFilter returned or threw
        filtered(filter) ==
            IF ~filter.ok THEN [ret |-> filter, nq |-> 0]
            ELSE select(ParseWhere("companies", filter.whereClause), filter.values)
    IN filtered(sqlForFilter(filterValues, "companies"))

\* Company.create: the new company or BadRequestError on a duplicate handle
CompanyCreate(data) ==
    LET handle == Template(Prop(data, "handle")) IN
    IF handle \in DOMAIN companies
    THEN [ret |-> Throw("BadRequestError", "Duplicate company: " \o handle),
          companies |-> companies, nq |-> 1]
    ELSE [ret |-> [ok |-> TRUE,
                   value |-> [handle |-> handle,
                              name |-> Prop(data, "name"),
                              description |-> Prop(data, "description"),
                              numEmployees |-> Prop(data, "numEmployees"),
                              logoUrl |-> Prop(data, "logoUrl")]],
          companies |-> companies @@ (handle :>
                            [name |-> Prop(data, "name"),
                             numEmployees |-> Prop(data, "numEmployees"),
                             description |-> Prop(data, "description"),
                             logoUrl |-> Prop(data, "logoUrl")]),
          nq |-> 2]

\* Company.remove: undefined or NotFoundError, and the store afterwards; the
\* jobs of the company go with it (ON DELETE CASCADE of jobs.company_handle)
\* and the applications to them with the jobs
CompanyRemove(handle) ==
    LET own == {id \in DOMAIN jobs : jobs[id].company_handle = handle} IN
    IF handle \notin DOMAIN companies
    THEN [ret |-> Throw("NotFoundError", "No company: " \o handle),
          companies |-> companies, jobs |-> jobs, applications |-> applications, nq |-> 1]
    ELSE [ret |-> [ok |-> TRUE, value |-> Undefined],
          companies |-> [h \in DOMAIN companies \ {handle} |-> companies[h]],
          jobs |-> DeleteJobs(own).jobs,
          applications |-> DeleteJobs(own).applications,
          nq |-> 1]

(***************************************************************************)
(* routes/jobs.js and GET /companies                                       *)
(***************************************************************************)
\* a faulty catch that hands every error to next as it is
CreateFailurePassed(err, body) == err

\* the catch of POST /jobs: the error handed to next
CreateFailure(err, body) ==
    IF "code" \in DOMAIN err /\ err.code = "23503"
    THEN Throw("NotFoundError",
               "Job NOT created: companyHandle '"
                   \o Template(Prop(body, "companyHandle")) \o "' does not exist")
    ELSE err

\* POST /jobs: the response, and the store afterwards
PostJobs(principal, body) ==
    LET same(err) ==
            [ret |-> ErrorResponse(CreateFailure(err, body)),
             jobs |-> jobs, nextId |-> nextId, nq |-> 0]
        \* r: what Job.create returned or threw, and the store after it
        created(r) ==
            [ret |-> IF r.ret.ok
                     THEN [status |-> 201, job |-> r.ret.value]
                     ELSE ErrorResponse(CreateFailure(r.ret, body)),
             jobs |-> r.jobs, nextId |-> r.nextId, nq |-> r.nq]
    IN
    IF ~EnsureAdmin(principal)
    THEN [ret |-> ErrorResponse(Throw("UnauthorizedError", "Unauthorized")),
          jobs |-> jobs, nextId |-> nextId, nq |-> 0]
    ELSE IF ~JobNewValid(body) THEN same(SchemaError)
    ELSE created(JobCreate(body))

\* GET /jobs: the response, and req.query afterwards
GetJobs(query) ==
    LET \* r: what Job.findAll returned or threw
        found(r) ==
            [ret |-> IF r.ret.ok THEN [status |-> 200, jobs |-> r.ret.value]
                     ELSE ErrorResponse(r.ret),
             query |-> r.filterValues, nq |-> r.nq]
    IN
    IF ~JobFilterValid(query)
    THEN [ret |-> ErrorResponse(SchemaError), query |-> query, nq |-> 0]
    ELSE found(JobFindAll(Str(<<>>), "", query))

\* GET /companies: the response
GetCompanies(query) ==
    LET \* r: what Company.findAll returned or threw
        found(r) ==
            [ret |-> IF r.ret.ok THEN [status |-> 200, companies |-> r.ret.value]
                     ELSE ErrorResponse(r.ret),
             nq |-> r.nq]
    IN
    IF ~CompanyFilterValid(query)
    THEN [ret |-> ErrorResponse(SchemaError), nq |-> 0]
    ELSE found(CompanyFindAll(query))

\* GET /companies/:handle: the response
GetCompany(handle) ==
    LET found(c) == IF c.ok THEN [status |-> 200, company |-> c.value]
                    ELSE ErrorResponse(c)
    IN [ret |-> found(CompanyGet(handle)), nq |-> 1]

\* a faulty PATCH /jobs/:id that validates no body
PatchJobUnvalidated(principal, id, body) ==
    LET updated(r) ==
            [ret |-> IF r.ret.ok THEN [status |-> 200, job |-> r.ret.value]
                     ELSE ErrorResponse(r.ret),
             jobs |-> r.jobs, nq |-> r.nq]
    IN
    IF ~EnsureAdmin(principal)
    THEN [ret |-> ErrorResponse(Throw("UnauthorizedError", "Unauthorized")),
          jobs |-> jobs, nq |-> 0]
    ELSE updated(JobUpdate(id, body))

\* a faulty PATCH /jobs/:id that validates the body before it looks at the
\* principal
PatchJobValidatingFirst(principal, id, body) ==
    LET updated(r) ==
            [ret |-> IF r.ret.ok THEN [status |-> 200, job |-> r.ret.value]
                     ELSE ErrorResponse(r.ret),
             jobs |-> r.jobs, nq |-> r.nq]
    IN
    IF ~JobUpdateValid(body)
    THEN [ret |-> ErrorResponse(SchemaError), jobs |-> jobs, nq |-> 0]
    ELSE IF ~EnsureAdmin(principal)
    THEN [ret |-> ErrorResponse(Throw("UnauthorizedError", "Unauthorized")),
          jobs |-> jobs, nq |-> 0]
    ELSE updated(JobUpdate(id, body))

\* PATCH /jobs/:id: the response, and the jobs afterwards; id is the integer
\* req.params.id writes
PatchJob(principal, id, body) ==
    LET \* r: what Job.update returned or threw, and the jobs after it
        updated(r) ==
            [ret |-> IF r.ret.ok THEN [status |-> 200, job |-> r.ret.value]
                     ELSE ErrorResponse(r.ret),
             jobs |-> r.jobs, nq |-> r.nq]
    IN
    IF ~EnsureAdmin(principal)
    THEN [ret |-> ErrorResponse(Throw("UnauthorizedError", "Unauthorized")),
          jobs |-> jobs, nq |-> 0]
    ELSE IF ~JobUpdateValid(body)
    THEN [ret |-> ErrorResponse(SchemaError), jobs |-> jobs, nq |-> 0]
    ELSE updated(JobUpdate(id, body))

\* DELETE /jobs/:id: the response, and the store afterwards; id is the
\* integer req.params.id writes
DeleteJob(principal, id) ==
    LET \* r: what Job.remove returned or threw, and the store after it
        removed(r) ==
            [ret |-> IF r.ret.ok THEN [status |-> 200, deleted |-> Str(DecimalText(id))]
                     ELSE ErrorResponse(r.ret),
             jobs |-> r.jobs, applications |-> r.applications, nq |-> r.nq]
    IN
    IF ~EnsureAdmin(principal)
    THEN [ret |-> ErrorResponse(Throw("UnauthorizedError", "Unauthorized")),
          jobs |-> jobs, applications |-> applications, nq |-> 0]
    ELSE removed(JobRemove(id))

(***************************************************************************)
(* The requests made of the running server.                                *)
(***************************************************************************)
Absent == [t |-> "absent"]

\* an object of the given properties, those valued Absent left out
ObjWithout(props) == Obj(SelectSeq(props, LAMBDA p : p.v # Absent))

\* the bodies that pass jobNewSchema, for a company that exists (d1) and
\* for one that does not (f1), and a body that fails it
JobBodies ==
    {ObjWithout(<<[k |-> "companyHandle", v |-> h], [k |-> "title", v |-> Str(<<"j", "2">>)],
                  [k |-> "salary", v |-> sal], [k |-> "equity", v |-> eq]>>) :
        h \in {Str(<<"d", "1">>), Str(<<"f", "1">>)},
        sal \in {Absent, Num(2)},
        eq \in {Absent, Num(0), Frac(0, 2)}}
    \cup {Obj(<<[k |-> "companyHandle", v |-> Str(<<"d", "1">>)],
                [k |-> "title", v |-> Str(<<"j", "2">>)],
                [k |-> "salary", v |-> Str(<<"$", "2">>)],
                [k |-> "equity", v |-> Frac(1, 20)]>>)}

\* who posts what: an admin every body, the others one valid body and one
\* that fails the schema
PostJobsInputs ==
    {<<"admin", b>> : b \in JobBodies}
    \cup {<<p, b>> :
            p \in Principals \ {"admin"},
            b \in {Obj(<<[k |-> "companyHandle", v |-> Str(<<"d", "1">>)],
                         [k |-> "title", v |-> Str(<<"j", "2">>)]>>),
                   Obj(<<[k |-> "companyHandle", v |-> Str(<<"d", "1">>)],
                         [k |-> "title", v |-> Str(<<"j", "2">>)],
                         [k |-> "salary", v |-> Str(<<"$", "2">>)]>>)}}

JobQueryKeys == {"title", "minSalary", "hasEquity", "maxSalary"}

JobQueryValues ==
    [key \in JobQueryKeys |->
        CASE key = "title" -> {Str(<<"2">>)}
          [] key = "minSalary" -> {Str(<<"2">>)}
          [] key = "hasEquity" -> {Str(<<"t", "r", "u", "e">>), Str(<<"f", "a", "l", "s", "e">>)}
          [] OTHER -> {Str(<<"9">>)}]

JobQueries == {Obj(o) : o \in PropSeqs(JobQueryKeys, JobQueryValues, MaxQueryKeys)}

JobUpdateKeys == {"title", "salary", "equity"}

JobUpdateValues ==
    [key \in JobUpdateKeys |->
        CASE key = "title" -> {Str(<<"j", "3">>)}
          [] key = "salary" -> {Num(3)}
          [] OTHER -> {Frac(0, 2)}]

JobUpdateData == {Obj(o) : o \in PropSeqs(JobUpdateKeys, JobUpdateValues, MaxUpdateKeys)}

Init ==
    /\ InitStore
    /\ args = [fn |-> "none"]

CreateJob ==
    \E data \in {b \in JobBodies : JobNewValid(b)} :
    \E r \in {JobCreate(data)} :
        /\ nextId <= MaxJobs
        /\ args' = [fn |-> "Job.create", data |-> data]
        /\ ret' = r.ret
        /\ jobs' = r.jobs
        /\ nextId' = r.nextId
        /\ nq' = r.nq
        /\ UNCHANGED <<companies, users, applications>>

PostJobsRequest ==
    \E in \in PostJobsInputs :
    \E r \in {PostJobs(in[1], in[2])} :
        /\ nextId <= MaxJobs
        /\ args' = [fn |-> "POST /jobs", principal |-> in[1], body |-> in[2]]
        /\ ret' = r.ret
        /\ jobs' = r.jobs
        /\ nextId' = r.nextId
        /\ nq' = r.nq
        /\ UNCHANGED <<companies, users, applications>>

GetJobsRequest ==
    \E query \in JobQueries :
    \E r \in {GetJobs(query)} :
        /\ args' = [fn |-> "GET /jobs", query |-> query, queryAfter |-> r.query]
        /\ ret' = r.ret
        /\ nq' = r.nq
        /\ UNCHANGED <<companies, jobs, users, nextId, applications>>

Next ==
    \/ CreateJob
    \/ PostJobsRequest
    \/ GetJobsRequest

Spec == Init /\ [][Next]_vars

(***************************************************************************)
(* sqlForPartialUpdate applied to every input, and its callers Job.update  *)
(* and User.update on the seeded store.                                    *)
(***************************************************************************)
JobIds == {1, 2}

JobUpdateInputs ==
    {[fn |-> "Job.update", id |-> id, data |-> d] : id \in JobIds, d \in JobUpdateData}

Usernames == {"u1", "nope"}

UserUpdateKeys == {"firstName", "email", "password"}

UserUpdateValues ==
    [key \in UserUpdateKeys |->
        CASE key = "firstName" -> {Str(<<"A", "l">>)}
          [] key = "email" -> {Str(<<"a", "@">>)}
          [] OTHER -> {Str(<<"p", "w">>)}]

UserUpdateInputs ==
    {[fn |-> "User.update", username |-> u, data |-> Obj(d)] :
        u \in Usernames, d \in PropSeqs(UserUpdateKeys, UserUpdateValues, MaxUpdateKeys)}

InitUpdate == InitStore /\ args \in UpdateInputs \cup JobUpdateInputs \cup UserUpdateInputs

CallSqlForPartialUpdate ==
    /\ args.fn = "sqlForPartialUpdate"
    /\ ret = NoRet
    /\ ret' = sqlForPartialUpdate(args.dataToUpdate, args.jsToSql)
    /\ UNCHANGED <<companies, jobs, users, nextId, args, nq, applications>>

CallJobUpdate ==
    /\ args.fn = "Job.update"
    /\ ret = NoRet
    /\ \E r \in {JobUpdate(args.id, args.data)} :
        /\ ret' = r.ret
        /\ jobs' = r.jobs
        /\ nq' = r.nq
    /\ UNCHANGED <<companies, users, nextId, args, applications>>

CallUserUpdate ==
    /\ args.fn = "User.update"
    /\ ret = NoRet
    /\ \E r \in {UserUpdate(args.username, args.data)} :
        /\ ret' = r.ret
        /\ users' = r.users
        /\ nq' = r.nq
        /\ args' = [args EXCEPT !.data = r.data]
    /\ UNCHANGED <<companies, jobs, nextId, applications>>

NextUpdate ==
    \/ CallSqlForPartialUpdate
    \/ CallJobUpdate
    \/ CallUserUpdate

SpecUpdate == InitUpdate /\ [][NextUpdate]_vars

(***************************************************************************)
(* sqlForFilter applied to every input, and GET /companies on the seeded   *)
(* store.                                                                  *)
(***************************************************************************)
CompanyQueryKeys == {"nameLike", "minEmployees", "maxEmployees"}

CompanyQueryValues ==
    [key \in CompanyQueryKeys |->
        CASE key = "nameLike" -> {Str(<<"c">>), Str(<<"1">>)}
          [] key = "minEmployees" -> {Str(<<"1">>), Str(<<"4">>), Str(<<"1", "0">>)}
          [] OTHER -> {Str(<<"1">>), Str(<<"4">>), Str(<<"5">>)}]

CompanyQueryInputs ==
    {[fn |-> "GET /companies", query |-> Obj(q)] :
        q \in PropSeqs(CompanyQueryKeys, CompanyQueryValues, MaxFilterKeys)}

InitFilter == InitStore /\ args \in FilterInputs \cup CompanyQueryInputs

CallSqlForFilter ==
    /\ args.fn = "sqlForFilter"
    /\ ret = NoRet
    /\ ret' = sqlForFilter(args.dataForFilter, args.table)
    /\ UNCHANGED <<companies, jobs, users, nextId, args, nq, applications>>

CallGetCompanies ==
    /\ args.fn = "GET /companies"
    /\ ret = NoRet
    /\ \E r \in {GetCompanies(args.query)} :
        /\ ret' = r.ret
        /\ nq' = r.nq
    /\ UNCHANGED <<companies, jobs, users, nextId, args, applications>>

NextFilter ==
    \/ CallSqlForFilter
    \/ CallGetCompanies

SpecFilter == InitFilter /\ [][NextFilter]_vars

(***************************************************************************)
(* The store under creates, updates and removes of companies, jobs, users  *)
(* and applications, and the reads made of it.                             *)
(***************************************************************************)
\* the handles asked for, as the texts a caller passes: two companies of the
\* seed and one that never is
HandleText == [c1 |-> Str(<<"c", "1">>), d1 |-> Str(<<"d", "1">>), f1 |-> Str(<<"f", "1">>)]

\* the job ids asked for: those the serial hands out and one it never does
StoreJobIds == 1..(MaxJobs + 1)

\* the usernames asked for: a user of the seed and one that never is
Applicants == {"u1", "nope"}

\* the rows of the store when a call is made
StoreBefore ==
    [companies |-> companies, jobs |-> jobs, users |-> users, applications |-> applications]

\* Company.create of a company of the seed, with the columns of the seed
CompanyCreateCall ==
    \E h \in DOMAIN SeedCompanies :
    \E data \in {Obj(<<[k |-> "handle", v |-> HandleText[h]],
                        [k |-> "name", v |-> SeedCompanies[h].name],
                        [k |-> "description", v |-> SeedCompanies[h].description],
                        [k |-> "numEmployees", v |-> SeedCompanies[h].numEmployees],
                        [k |-> "logoUrl", v |-> SeedCompanies[h].logoUrl]>>)} :
    \E r \in {CompanyCreate(data)} :
        /\ args' = [fn |-> "Company.create", data |-> data]
        /\ ret' = r.ret
        /\ companies' = r.companies
        /\ nq' = r.nq
        /\ UNCHANGED <<jobs, users, applications, nextId>>

CompanyRemoveCall ==
    \E h \in DOMAIN HandleText :
    \E r \in {CompanyRemove(h)} :
        /\ args' = [fn |-> "Company.remove", handle |-> h, before |-> StoreBefore]
        /\ ret' = r.ret
        /\ companies' = r.companies
        /\ jobs' = r.jobs
        /\ applications' = r.applications
        /\ nq' = r.nq
        /\ UNCHANGED <<users, nextId>>

GetCompanyRequest ==
    \E h \in DOMAIN HandleText :
    \E r \in {GetCompany(HandleText[h])} :
        /\ args' = [fn |-> "GET /companies/:handle", handle |-> h]
        /\ ret' = r.ret
        /\ nq' = r.nq
        /\ UNCHANGED <<companies, jobs, users, applications, nextId>>

\* Job.create of a job for each handle asked for
JobCreateCall ==
    \E data \in {Obj(<<[k |-> "companyHandle", v |-> HandleText[h]],
                        [k |-> "title", v |-> Str(<<"j", "2">>)]>>) : h \in DOMAIN HandleText} :
    \E r \in {JobCreate(data)} :
        /\ nextId <= MaxJobs
        /\ args' = [fn |-> "Job.create", data |-> data]
        /\ ret' = r.ret
        /\ jobs' = r.jobs
        /\ nextId' = r.nextId
        /\ nq' = r.nq
        /\ UNCHANGED <<companies, users, applications>>

\* Job.update that moves a job to another company
JobMoveCall ==
    \E id \in StoreJobIds :
    \E data \in {Obj(<<[k |-> "companyHandle", v |-> HandleText[h]]>>) : h \in {"d1", "f1"}} :
    \E r \in {JobUpdate(id, data)} :
        /\ args' = [fn |-> "Job.update", id |-> id, data |-> data]
        /\ ret' = r.ret
        /\ jobs' = r.jobs
        /\ nq' = r.nq
        /\ UNCHANGED <<companies, users, applications, nextId>>

JobRemoveCall ==
    \E id \in StoreJobIds :
    \E r \in {JobRemove(id)} :
        /\ args' = [fn |-> "Job.remove", id |-> id, before |-> StoreBefore]
        /\ ret' = r.ret
        /\ jobs' = r.jobs
        /\ applications' = r.applications
        /\ nq' = r.nq
        /\ UNCHANGED <<companies, users, nextId>>

DeleteJobRequest ==
    \E principal \in Principals, id \in StoreJobIds :
    \E r \in {DeleteJob(principal, id)} :
        /\ args' = [fn |-> "DELETE /jobs/:id", principal |-> principal, id |-> id,
                    before |-> StoreBefore]
        /\ ret' = r.ret
        /\ jobs' = r.jobs
        /\ applications' = r.applications
        /\ nq' = r.nq
        /\ UNCHANGED <<companies, users, nextId>>

JobGetCall ==
    \E id \in StoreJobIds :
    \E r \in {JobGet(id)} :
        /\ args' = [fn |-> "Job.get", id |-> id]
        /\ ret' = r.ret
        /\ nq' = r.nq
        /\ UNCHANGED <<companies, jobs, users, applications, nextId>>

ListJobsCall ==
    \E r \in {JobFindAll(Str(<<>>), "", Obj(<<>>))} :
        /\ args' = [fn |-> "Job.findAll", handle |-> Str(<<>>), joinType |-> "",
                    filterValues |-> Obj(<<>>), filterValuesAfter |-> r.filterValues]
        /\ ret' = r.ret
        /\ nq' = r.nq
        /\ UNCHANGED <<companies, jobs, users, applications, nextId>>

\* User.register of the user u1, with the columns of the seed
UserRegisterCall ==
    \E data \in {Obj(<<[k |-> "username", v |-> Str(<<"u", "1">>)],
                        [k |-> "password", v |-> Str(<<"p", "w", "1">>)],
                        [k |-> "firstName", v |-> SeedUsers["u1"].first_name],
                        [k |-> "lastName", v |-> SeedUsers["u1"].last_name],
                        [k |-> "email", v |-> SeedUsers["u1"].email],
                        [k |-> "isAdmin", v |-> SeedUsers["u1"].is_admin]>>)} :
    \E r \in {UserRegister(data)} :
        /\ args' = [fn |-> "User.register", data |-> data]
        /\ ret' = r.ret
        /\ users' = r.users
        /\ nq' = r.nq
        /\ UNCHANGED <<companies, jobs, applications, nextId>>

ApplyForJobCall ==
    \E username \in Applicants, id \in StoreJobIds :
    \E r \in UserApplyForJob(username, id) :
        /\ args' = [fn |-> "User.applyForJob", username |-> username, id |-> id]
        /\ ret' = r.ret
        /\ applications' = r.applications
        /\ nq' = r.nq
        /\ UNCHANGED <<companies, jobs, users, nextId>>

UserGetCall ==
    \E username \in Applicants :
    \E r \in UserGet(username) :
        /\ args' = [fn |-> "User.get", username |-> username]
        /\ ret' = r.ret
        /\ nq' = r.nq
        /\ UNCHANGED <<companies, jobs, users, applications, nextId>>

UserRemoveCall ==
    \E username \in Applicants :
    \E r \in {UserRemove(username)} :
        /\ args' = [fn |-> "User.remove", username |-> username, before |-> StoreBefore]
        /\ ret' = r.ret
        /\ users' = r.users
        /\ applications' = r.applications
        /\ nq' = r.nq
        /\ UNCHANGED <<companies, jobs, nextId>>

NextStore ==
    \/ CompanyCreateCall
    \/ CompanyRemoveCall
    \/ GetCompanyRequest
    \/ JobCreateCall
    \/ JobMoveCall
    \/ JobRemoveCall
    \/ DeleteJobRequest
    \/ JobGetCall
    \/ ListJobsCall
    \/ UserRegisterCall
    \/ ApplyForJobCall
    \/ UserGetCall
    \/ UserRemoveCall

SpecStore == Init /\ [][NextStore]_vars

(***************************************************************************)
(* Job.findAll and GET /jobs applied to every input on every jobs table of *)
(* a bounded set.                                                          *)
(***************************************************************************)
\* the jobs tables: at most MaxJobs jobs, each one of four rows of the two
\* companies
FindJobTables ==
    LET rows == {[company_handle |-> "c1", title |-> Str(<<"j", "1">>),
                  salary |-> Num(1), equity |-> Null],
                 [company_handle |-> "c1", title |-> Str(<<"j", "2">>),
                  salary |-> Num(2), equity |-> Frac(0, 2)],
                 [company_handle |-> "d1", title |-> Str(<<"j", "2">>),
                  salary |-> Num(3), equity |-> Num(0)],
                 [company_handle |-> "d1", title |-> Str(<<"j", "1">>),
                  salary |-> Null, equity |-> Frac(0, 2)]}
    IN UNION {[S -> rows] : S \in SUBSET (1..MaxJobs)}

\* the calls of Job.findAll: the global listing and the lookup of a company,
\* under the filters of at most MaxQueryKeys fields
FindAllInputs ==
    LET values == [key \in {"title", "minSalary", "hasEquity"} |->
                    CASE key = "title" -> {Str(<<" ", "J", "2">>)}
                      [] key = "minSalary" -> {Str(<<"2">>)}
                      [] OTHER -> {Str(<<"t", "r", "u", "e">>), Str(<<"f", "a", "l", "s", "e">>),
                                   Bool(FALSE)}]
    IN {[fn |-> "Job.findAll", handle |-> h,
         joinType |-> IF h = Str(<<>>) THEN "" ELSE "LEFT ",
         filterValues |-> Obj(f), filterValuesAfter |-> Undefined] :
            h \in {Str(<<>>)} \cup {HandleText[x] : x \in DOMAIN HandleText},
            f \in PropSeqs(DOMAIN values, values, MaxQueryKeys)}

InitFind ==
    /\ companies = SeedCompanies
    /\ jobs \in FindJobTables
    /\ users = SeedUsers
    /\ applications = {}
    /\ nextId = MaxJobs + 1
    /\ nq = 0
    /\ ret = NoRet
    /\ args \in FindAllInputs
            \cup {[fn |-> "GET /jobs", query |-> q, queryAfter |-> Undefined] : q \in JobQueries}

CallJobFindAll ==
    /\ args.fn = "Job.findAll"
    /\ ret = NoRet
    /\ \E r \in {JobFindAll(args.handle, args.joinType, args.filterValues)} :
        /\ ret' = r.ret
        /\ nq' = r.nq
        /\ args' = [args EXCEPT !.filterValuesAfter = r.filterValues]
    /\ UNCHANGED <<companies, jobs, users, applications, nextId>>

CallGetJobs ==
    /\ args.fn = "GET /jobs"
    /\ ret = NoRet
    /\ \E r \in {GetJobs(args.query)} :
        /\ ret' = r.ret
        /\ nq' = r.nq
        /\ args' = [args EXCEPT !.queryAfter = r.query]
    /\ UNCHANGED <<companies, jobs, users, applications, nextId>>

NextFind ==
    \/ CallJobFindAll
    \/ CallGetJobs

SpecFind == InitFind /\ [][NextFind]_vars

(***************************************************************************)
(* The equity of a job through Job.create, Job.update and Job.get.         *)
(***************************************************************************)
\* Job.create with an equity given as a number, as the text of a number, or
\* not given
EquityCreateCall ==
    \E h \in {"c1", "d1"} :
    \E equity \in {Absent, Null, Num(0), Str(<<"0">>), Str(<<"0", ".", "0", "2">>)} :
    \E r \in {JobCreate(ObjWithout(<<[k |-> "companyHandle", v |-> HandleText[h]],
                                     [k |-> "title", v |-> Str(<<"n", "e", "w">>)],
                                     [k |-> "salary", v |-> Num(2)],
                                     [k |-> "equity", v |-> equity]>>))} :
        /\ nextId <= MaxJobs
        /\ args' = [fn |-> "Job.create", equity |-> equity]
        /\ ret' = r.ret
        /\ jobs' = r.jobs
        /\ nextId' = r.nextId
        /\ nq' = r.nq
        /\ UNCHANGED <<companies, users, applications>>

\* Job.update of the equity, alone or with the title
EquityUpdateCall ==
    \E id \in StoreJobIds :
    \E data \in {Obj(<<[k |-> "equity", v |-> e]>>) :
                    e \in {Null, Num(0), Str(<<"0">>), Frac(0, 2)}}
                \cup {Obj(<<[k |-> "title", v |-> Str(<<"j", "3">>)],
                            [k |-> "equity", v |-> Str(<<"0", ".", "0", "2">>)]>>),
                      Obj(<<[k |-> "title", v |-> Str(<<"j", "3">>)]>>)} :
    \E r \in {JobUpdate(id, data)} :
        /\ args' = [fn |-> "Job.update", id |-> id, data |-> data]
        /\ ret' = r.ret
        /\ jobs' = r.jobs
        /\ nq' = r.nq
        /\ UNCHANGED <<companies, users, applications, nextId>>

NextJob ==
    \/ EquityCreateCall
    \/ EquityUpdateCall
    \/ JobGetCall

SpecJob == Init /\ [][NextJob]_vars

(***************************************************************************)
(* The User model on the seeded store: registration, update and            *)
(* authentication of u1 and u2, and the listings.                          *)
(***************************************************************************)
RegisterCall ==
    \E data \in {Obj(<<[k |-> "username", v |-> u],
                        [k |-> "password", v |-> pw],
                        [k |-> "firstName", v |-> Str(<<"N", "e", "w">>)],
                        [k |-> "lastName", v |-> Str(<<"U", "L">>)],
                        [k |-> "email", v |-> Str(<<"n", "@">>)],
                        [k |-> "isAdmin", v |-> Bool(admin)]>>) :
                    u \in {Str(<<"u", "1">>), Str(<<"u", "2">>)},
                    pw \in {Str(<<"p", "w">>), Str(<<"p", "w", "1">>)},
                    admin \in BOOLEAN} :
    \E r \in {UserRegister(data)} :
        /\ args' = [fn |-> "User.register", data |-> data, before |-> users]
        /\ ret' = r.ret
        /\ users' = r.users
        /\ nq' = r.nq
        /\ UNCHANGED <<companies, jobs, applications, nextId>>

\* User.update of the first name and of the password, the empty password
\* among the passwords
UpdateCall ==
    \E username \in {"u1", "u2"} :
    \E data \in {Obj(<<[k |-> "password", v |-> Str(<<"p", "w">>)]>>),
                 Obj(<<[k |-> "password", v |-> Str(<<>>)]>>),
                 Obj(<<[k |-> "firstName", v |-> Str(<<"A", "l">>)]>>),
                 Obj(<<[k |-> "firstName", v |-> Str(<<"A", "l">>)],
                       [k |-> "password", v |-> Str(<<"p", "w", "1">>)]>>)} :
    \E r \in {UserUpdate(username, data)} :
        /\ args' = [fn |-> "User.update", username |-> username, data |-> data,
                    dataAfter |-> r.data]
        /\ ret' = r.ret
        /\ users' = r.users
        /\ nq' = r.nq
        /\ UNCHANGED <<companies, jobs, applications, nextId>>

AuthenticateCall ==
    \E username \in {"u1", "u2"} :
    \E password \in {Str(<<"p", "w">>), Str(<<"p", "w", "1">>), Str(<<>>)} :
    \E r \in {UserAuthenticate(username, password)} :
        /\ args' = [fn |-> "User.authenticate", username |-> username,
                    password |-> password]
        /\ ret' = r.ret
        /\ nq' = r.nq
        /\ UNCHANGED <<companies, jobs, users, applications, nextId>>

FindAllCall ==
    \E r \in UserFindAll :
        /\ args' = [fn |-> "User.findAll"]
        /\ ret' = r.ret
        /\ nq' = r.nq
        /\ UNCHANGED <<companies, jobs, users, applications, nextId>>

NextUser ==
    \/ RegisterCall
    \/ UpdateCall
    \/ AuthenticateCall
    \/ FindAllCall
    \/ UserGetCall
    \/ ApplyForJobCall

SpecUser == Init /\ [][NextUser]_vars

(***************************************************************************)
(* The routes of /jobs that write, requested by every principal.           *)
(***************************************************************************)
\* PATCH /jobs/:id with bodies of title, salary and equity, and with the
\* bodies that name id or companyHandle
PatchJobRequest ==
    \E principal \in Principals, id \in StoreJobIds :
    \E body \in {Obj(<<[k |-> "title", v |-> Str(<<"j", "2">>)]>>),
                 Obj(<<[k |-> "salary", v |-> Num(2)],
                       [k |-> "equity", v |-> Frac(0, 2)]>>),
                 Obj(<<[k |-> "id", v |-> Num(9)]>>),
                 Obj(<<[k |-> "companyHandle", v |-> Str(<<"d", "1">>)]>>),
                 Obj(<<[k |-> "title", v |-> Str(<<"j", "2">>)],
                       [k |-> "companyHandle", v |-> Str(<<"d", "1">>)]>>)} :
    \E r \in {PatchJob(principal, id, body)} :
        /\ args' = [fn |-> "PATCH /jobs/:id", principal |-> principal, id |-> id,
                    body |-> body]
        /\ ret' = r.ret
        /\ jobs' = r.jobs
        /\ nq' = r.nq
        /\ UNCHANGED <<companies, users, applications, nextId>>

NextAdmin ==
    \/ PostJobsRequest
    \/ PatchJobRequest
    \/ DeleteJobRequest

SpecAdmin == Init /\ [][NextAdmin]_vars

(***************************************************************************)
(* Two calls of User.applyForJob in flight at once.  Each call is two      *)
(* queries, the duplicate check and the INSERT, and the other call may run *)
(* between them.  args.calls holds the arguments of the two calls and      *)
(* args.pc the query each call is to issue next; ret holds what each call  *)
(* returned or threw.                                                      *)
(***************************************************************************)
InitApply ==
    /\ companies = SeedCompanies
    /\ jobs = SeedJobs
    /\ users = SeedUsers
    /\ applications = {}
    /\ nextId = 2
    /\ nq = 0
    /\ ret = <<NoRet, NoRet>>
    /\ args \in {[fn |-> "User.applyForJob", calls |-> <<c1, c2>>,
                  pc |-> <<"check", "check">>] :
                    c1, c2 \in {[username |-> u, id |-> id] :
                                    u \in Applicants, id \in StoreJobIds}}

\* the duplicate check of call p: the SELECT, and the throw when it finds a
\* row
ApplyDuplicateCheck(p) ==
    /\ args.pc[p] = "check"
    /\ nq' = nq + 1
    /\ IF <<args.calls[p].username, args.calls[p].id>> \in applications
       THEN /\ ret' = [ret EXCEPT ![p] =
                        Throw("BadRequestError",
                              "Duplicate username: " \o args.calls[p].username
                                \o " has already applied for job "
                                \o Template(Num(args.calls[p].id)))]
            /\ args' = [args EXCEPT !.pc[p] = "done"]
       ELSE /\ ret' = ret
            /\ args' = [args EXCEPT !.pc[p] = "insert"]
    /\ UNCHANGED <<companies, jobs, users, applications, nextId>>

\* the INSERT of call p and what follows it: the row is returned, or the
\* catch turns the error of the store into the error thrown; the store
\* reports the primary key when the row is there, and else a foreign key
ApplyInsert(p) ==
    /\ args.pc[p] = "insert"
    /\ nq' = nq + 1
    /\ args' = [args EXCEPT !.pc[p] = "done"]
    /\ \E r \in IF <<args.calls[p].username, args.calls[p].id>> \in applications
                THEN {[ret |-> ApplyFailure(
                                DbError("23505",
                                        "duplicate key value violates unique constraint \"applications_pkey\""),
                                "applications_pkey",
                                args.calls[p].username, args.calls[p].id),
                       applications |-> applications]}
                ELSE IF ViolatedApplicationKeys(args.calls[p].username, args.calls[p].id) = {}
                THEN {[ret |-> [ok |-> TRUE, value |-> [job_id |-> Num(args.calls[p].id)]],
                       applications |-> applications
                            \cup {<<args.calls[p].username, args.calls[p].id>>}]}
                ELSE {[ret |-> ApplyFailure(DbError("23503", ApplicationKeyMessage(c)), c,
                                            args.calls[p].username, args.calls[p].id),
                       applications |-> applications] :
                        c \in ViolatedApplicationKeys(args.calls[p].username,
                                                      args.calls[p].id)} :
        /\ ret' = [ret EXCEPT ![p] = r.ret]
        /\ applications' = r.applications
    /\ UNCHANGED <<companies, jobs, users, nextId>>

NextApply ==
    \E p \in {1, 2} :
        \/ ApplyDuplicateCheck(p)
        \/ ApplyInsert(p)

SpecApply == InitApply /\ [][NextApply]_vars

(***************************************************************************)
(* Properties of sqlForPartialUpdate and its callers, under SpecUpdate.    *)
(***************************************************************************)
\* the call has returned or thrown
Returned == ret # NoRet

\* the column the i-th key is assigned to: the mapped name when the column
\* mapping has an entry for the key, the key itself otherwise
MappedColumn(dataToUpdate, jsToSql, i) ==
    LET key == dataToUpdate.v[i].k
        entries == {j \in 1..Len(jsToSql.v) : jsToSql.v[j].k = key}
    IN IF entries = {} THEN key
       ELSE Concat(jsToSql.v[CHOOSE j \in entries : TRUE].v.v)

RECURSIVE Assignments(_, _, _)
\* the assignments "<col_i>"=$i of keys i..n, joined by ', '
Assignments(dataToUpdate, jsToSql, i) ==
    LET one == "\"" \o MappedColumn(dataToUpdate, jsToSql, i) \o "\"=$" \o ToString(i) IN
    IF i = Len(dataToUpdate.v) THEN one
    ELSE one \o ", " \o Assignments(dataToUpdate, jsToSql, i + 1)

\* the column mapping without its entries for keys absent from the data
OnlyKeysOf(dataToUpdate, jsToSql) ==
    Obj(SelectSeq(jsToSql.v, LAMBDA p : p.k \in KeysOf(dataToUpdate.v)))

\* C1: for every non-empty update mapping and every column mapping,
\* sqlForPartialUpdate returns as setCols the n assignments "<col_i>"=$i joined
\* by ', ', col_i being the mapped name of the i-th key when the mapping has
\* an entry for it and the key itself otherwise, returns as values the
\* mapping's values in the same order, and returns the same whether or not
\* the column mapping has entries for keys the update mapping lacks.
C1_SetColsAndValues ==
    (/\ args.fn = "sqlForPartialUpdate"
     /\ Returned
     /\ Len(args.dataToUpdate.v) > 0
     /\ args.jsToSql # Undefined)
    => /\ ret.ok
       /\ ret.setCols = Assignments(args.dataToUpdate, args.jsToSql, 1)
       /\ ret.values = [i \in 1..Len(args.dataToUpdate.v) |-> args.dataToUpdate.v[i].v]
       /\ ret = sqlForPartialUpdate(args.dataToUpdate,
                                    OnlyKeysOf(args.dataToUpdate, args.jsToSql))

\* a mapped key, an unmapped key and a mapping entry for an absent key
C1_Witness ==
    /\ args.fn = "sqlForPartialUpdate"
    /\ ObjectKeys(args.dataToUpdate) = <<"firstName", "email">>
    /\ args.jsToSql # Undefined
    /\ KeysOf(args.jsToSql.v) = {"firstName", "firstNameX"}
    /\ Returned
    /\ ret.ok
    /\ ret.setCols = "\"first_name\"=$1, \"email\"=$2"
    /\ ret.values = <<Str(<<"A", "l">>), Num(32)>>

\* the data of the call, whichever function is called
CalledData == IF args.fn = "sqlForPartialUpdate" THEN args.dataToUpdate ELSE args.data

\* C2: with an empty update mapping sqlForPartialUpdate throws BadRequestError
\* 'No data' whatever the column mapping (also when it is omitted) and
\* returns no clause; Job.update and User.update with empty data throw that
\* error with no query issued and the store as it was.
C2_NoData ==
    (Returned /\ Len(CalledData.v) = 0)
    => /\ ret = Throw("BadRequestError", "No data")
       /\ "setCols" \notin DOMAIN ret
       /\ nq = 0
       /\ jobs = SeedJobs
       /\ users = SeedUsers

\* Job.update of an existing job with empty data has thrown
C2_Witness ==
    /\ args.fn = "Job.update"
    /\ args.id \in DOMAIN jobs
    /\ args.data = Obj(<<>>)
    /\ Returned
    /\ ret.error = "BadRequestError"
    /\ ret.message = "No data"
    /\ nq = 0

(***************************************************************************)
(* Properties of sqlForFilter and GET /companies, under SpecFilter.        *)
(***************************************************************************)
FilterCalled == args.fn = "sqlForFilter" /\ Returned

\* the filter of the call is a mapping with at least one field
NonEmptyFilter == args.dataForFilter.t = "object" /\ Len(args.dataForFilter.v) > 0

\* the fields that take a parameter, per entity, and hasEquity
Recognized ==
    [companies |-> {"nameLike", "minEmployees", "maxEmployees"},
     jobs |-> {"title", "minSalary", "hasEquity"}]

\* the condition of a field whose placeholder is $n
ConditionOf(key, n) ==
    CASE key = "nameLike" -> "name ILIKE $" \o ToString(n)
      [] key = "minEmployees" -> "num_employees >= $" \o ToString(n)
      [] key = "maxEmployees" -> "num_employees <= $" \o ToString(n)
      [] key = "title" -> "title ILIKE $" \o ToString(n)
      [] key = "minSalary" -> "salary >= $" \o ToString(n)

\* the number of the placeholder of the i-th field: one more than the
\* number of fields before it that take a parameter
PlaceholderOf(d, i) == 1 + Cardinality({j \in 1..(i - 1) : d.v[j].k # "hasEquity"})

RECURSIVE Conditions(_, _, _)
\* the conditions of fields i..n joined by ' AND ', equity standing for the
\* condition of hasEquity
Conditions(d, i, equity) ==
    LET one == IF d.v[i].k = "hasEquity" THEN equity
               ELSE ConditionOf(d.v[i].k, PlaceholderOf(d, i))
    IN IF i = Len(d.v) THEN one ELSE one \o " AND " \o Conditions(d, i + 1, equity)

Spaces(n) == [i \in 1..n |-> " "]

\* p is the text s without its leading and trailing blanks, wrapped in %
WrappedTrim(p, s) ==
    /\ Len(p) >= 2
    /\ p[1] = "%" /\ p[Len(p)] = "%"
    /\ LET t == SubSeq(p, 2, Len(p) - 1) IN
       /\ t = <<>> \/ (t[1] # " " /\ t[Len(t)] # " ")
       /\ \E a, b \in 0..Len(s) : s = Spaces(a) \o t \o Spaces(b)

\* x is the integer the decimal text s writes
IntegerOf(x, s) == x.t = "number" /\ x.c = 0 /\ x.v \in Nat /\ DecimalText(x.v) = s

\* C3: on companies nameLike becomes `name ILIKE $n` with the value trimmed
\* and wrapped in %..% as parameter, minEmployees `num_employees >= $n` and
\* maxEmployees `num_employees <= $n` with the integer of the value as
\* parameter; on jobs title becomes `title ILIKE $n` (trimmed, wrapped) and
\* minSalary `salary >= $n` (integer).
C3_FieldTranslation ==
    (/\ FilterCalled
     /\ NonEmptyFilter
     /\ ret.ok
     /\ "hasEquity" \notin KeysOf(args.dataForFilter.v))
    => LET d == args.dataForFilter IN
       /\ KeysOf(d.v) \subseteq Recognized[args.table]
       /\ ret.whereClause = "WHERE " \o Conditions(d, 1, "")
       /\ Len(ret.values) = Len(d.v)
       /\ \A i \in 1..Len(d.v) :
            IF d.v[i].k \in {"nameLike", "title"}
            THEN ret.values[i].t = "string" /\ WrappedTrim(ret.values[i].v, d.v[i].v.v)
            ELSE IntegerOf(ret.values[i], d.v[i].v.v)

\* {nameLike: "net ", minEmployees: "5", maxEmployees: "50"} on companies
C3_Witness ==
    /\ FilterCalled
    /\ args.table = "companies"
    /\ args.dataForFilter =
            Obj(<<[k |-> "nameLike", v |-> Str(<<"n", "e", "t", " ">>)],
                  [k |-> "minEmployees", v |-> Str(<<"5">>)],
                  [k |-> "maxEmployees", v |-> Str(<<"5", "0">>)]>>)
    /\ ret.ok
    /\ ret.whereClause = "WHERE name ILIKE $1 AND num_employees >= $2 AND num_employees <= $3"
    /\ ret.values = <<Str(<<"%", "n", "e", "t", "%">>), Num(5), Num(50)>>

\* C4: for every accepted non-empty filter the clause is 'WHERE ' and one
\* condition per field joined by ' AND ' in iteration order; the
\* placeholders are $1..$m from left to right, m the number of values; the
\* value at a placeholder's position is the parameter of the field that
\* holds it; hasEquity takes neither a placeholder nor a value.
C4_OrderAndNumbering ==
    (FilterCalled /\ NonEmptyFilter /\ ret.ok)
    => LET d == args.dataForFilter
           taking == {i \in 1..Len(d.v) : d.v[i].k # "hasEquity"}
       IN
       /\ \E equity \in {"equity > 0", "equity >= 0"} :
            ret.whereClause = "WHERE " \o Conditions(d, 1, equity)
       /\ Len(ret.values) = Cardinality(taking)
       /\ {PlaceholderOf(d, i) : i \in taking} = 1..Len(ret.values)
       /\ \A i \in taking :
            ret.values[PlaceholderOf(d, i)]
                = sqlForFilter(Obj(<<d.v[i]>>), args.table).values[1]

\* hasEquity between two fields that take a parameter
C4_Witness ==
    /\ FilterCalled
    /\ args.table = "jobs"
    /\ NonEmptyFilter
    /\ ObjectKeys(args.dataForFilter) = <<"minSalary", "hasEquity", "title">>
    /\ Prop(args.dataForFilter, "hasEquity") = Bool(TRUE)
    /\ ret.ok
    /\ ret.whereClause = "WHERE salary >= $1 AND equity > 0 AND title ILIKE $2"
    /\ ret.values = <<Num(50), Str(<<"%", "j", "1", "%">>)>>

\* the integer a decimal text writes
IntegerValue(cs) == CHOOSE n \in 0..99 : DecimalText(n) = cs

\* the mapping q holds minEmployees and maxEmployees with max <= min
MaxNotAboveMin(q) ==
    /\ q.t = "object"
    /\ {"minEmployees", "maxEmployees"} \subseteq KeysOf(q.v)
    /\ IntegerValue(Prop(q, "maxEmployees").v) <= IntegerValue(Prop(q, "minEmployees").v)

\* "Filter is incorrect: 'minEmployees', <min>, is NOT less than
\* 'maxEmployees', <max>."
IncorrectFilter(q) ==
    "Filter is incorrect: 'minEmployees', " \o Concat(Prop(q, "minEmployees").v)
        \o ", is NOT less than 'maxEmployees', " \o Concat(Prop(q, "maxEmployees").v) \o "."

\* C5: whenever a filter holds minEmployees and maxEmployees with
\* max <= min as integers, sqlForFilter throws BadRequestError "Filter is
\* incorrect: 'minEmployees', <min>, is NOT less than 'maxEmployees', <max>."
\* and returns no clause and no values, whatever the other fields and the
\* entity; GET /companies then answers 400 with that message and queries
\* nothing.
C5_MinMaxRejected ==
    /\ (FilterCalled /\ MaxNotAboveMin(args.dataForFilter))
        => /\ ret = Throw("BadRequestError", IncorrectFilter(args.dataForFilter))
           /\ {"whereClause", "values"} \cap DOMAIN ret = {}
    /\ (args.fn = "GET /companies" /\ Returned /\ MaxNotAboveMin(args.query))
        => /\ ret.status = 400
           /\ ret.message = IncorrectFilter(args.query)
           /\ nq = 0

\* GET /companies?minEmployees=10&maxEmployees=5
C5_Witness ==
    /\ args.fn = "GET /companies"
    /\ args.query = Obj(<<[k |-> "minEmployees", v |-> Str(<<"1", "0">>)],
                          [k |-> "maxEmployees", v |-> Str(<<"5">>)]>>)
    /\ Returned
    /\ ret.status = 400
    /\ ret.message
         = "Filter is incorrect: 'minEmployees', 10, is NOT less than 'maxEmployees', 5."

\* the positions of the fields the entity of the call does not recognize
Unrecognized ==
    {i \in 1..Len(args.dataForFilter.v) :
        args.dataForFilter.v[i].k \notin Recognized[args.table]}

NotPossible(table, field) ==
    "Filtering '" \o table \o "' by '" \o field \o "' is not possible."

\* C6 as stated: every filter holding a field the entity does not recognize
\* makes sqlForFilter throw BadRequestError "Filtering '<entity>' by
\* '<field>' is not possible." naming such a field, with no clause returned.
C6_AnyUnrecognizedField ==
    (FilterCalled /\ NonEmptyFilter /\ Unrecognized # {})
    => /\ \E i \in Unrecognized :
            ret = Throw("BadRequestError",
                        NotPossible(args.table, args.dataForFilter.v[i].k))
       /\ "whereClause" \notin DOMAIN ret

\* C6 amended: unless the filter holds minEmployees and maxEmployees with
\* max <= min, which is rejected first, a filter holding a field the entity
\* does not recognize makes sqlForFilter throw BadRequestError "Filtering
\* '<entity>' by '<field>' is not possible." naming the first such field in
\* iteration order, with no clause returned.
C6_FirstUnrecognizedField ==
    (/\ FilterCalled
     /\ NonEmptyFilter
     /\ Unrecognized # {}
     /\ ~MaxNotAboveMin(args.dataForFilter))
    => LET first == CHOOSE i \in Unrecognized : \A j \in Unrecognized : i <= j IN
       /\ ret = Throw("BadRequestError",
                      NotPossible(args.table, args.dataForFilter.v[first].k))
       /\ "whereClause" \notin DOMAIN ret

\* a field of companies in a filter of jobs, after a recognized field
C6_Witness ==
    /\ FilterCalled
    /\ args.table = "jobs"
    /\ NonEmptyFilter
    /\ ObjectKeys(args.dataForFilter) = <<"title", "minEmployees">>
    /\ ret.ok = FALSE
    /\ ret.error = "BadRequestError"
    /\ ret.message = "Filtering 'jobs' by 'minEmployees' is not possible."

\* C7: for an empty, null or undefined filter sqlForFilter returns the empty
\* clause and no values, without an error, for either entity.
C7_NoFilter ==
    (FilterCalled /\ ~NonEmptyFilter)
    => /\ ret.ok
       /\ ret.whereClause = ""
       /\ ret.values = <<>>

\* the undefined filter on jobs
C7_Witness ==
    /\ FilterCalled
    /\ args.dataForFilter = Undefined
    /\ args.table = "jobs"
    /\ ret.ok
    /\ ret.whereClause = ""
    /\ ret.values = <<>>

\* the value says true: the boolean, or the text of a query string
SaysTrue(x) == (x.t = "boolean" /\ x.v) \/ (x.t = "string" /\ x.v = <<"t", "r", "u", "e">>)

\* C8 as stated: on jobs a hasEquity of true, boolean or the text "true",
\* makes the condition `equity > 0`, and a hasEquity of false, boolean or the
\* text "false", makes it `equity >= 0`.
C8_HasEquityCondition ==
    (/\ FilterCalled
     /\ args.table = "jobs"
     /\ NonEmptyFilter
     /\ KeysOf(args.dataForFilter.v) \subseteq Recognized.jobs
     /\ "hasEquity" \in KeysOf(args.dataForFilter.v))
    => /\ ret.ok
       /\ ret.whereClause
            = "WHERE " \o Conditions(args.dataForFilter, 1,
                            IF SaysTrue(Prop(args.dataForFilter, "hasEquity"))
                            THEN "equity > 0" ELSE "equity >= 0")

(***************************************************************************)
(* Properties of the /jobs routes and Job.create, under Spec.              *)
(***************************************************************************)
\* C9 as stated: GET /jobs?hasEquity=false answers with every job that
\* GET /jobs answers with on the same store, the jobs of null equity and of
\* equity 0 among them.
C9_HasEquityFalseListsAll ==
    (/\ args.fn = "GET /jobs"
     /\ args.query = Obj(<<[k |-> "hasEquity", v |-> Str(<<"f", "a", "l", "s", "e">>)]>>))
    => ret = GetJobs(Obj(<<>>)).ret

\* the companyHandle of the job being created names no company
NoSuchCompany(body) ==
    /\ HasOwn(body, "companyHandle")
    /\ Concat(Prop(body, "companyHandle").v) \notin DOMAIN companies

\* C10: creating a job whose companyHandle names no company leaves the jobs
\* as they were.  Job.create makes no check of its own: it issues the INSERT
\* and throws the store's foreign-key error 23503.  POST /jobs by an admin
\* with a valid body answers that error with 404 "Job NOT created:
\* companyHandle '<handle>' does not exist"; an error of the validation is
\* handed on as it was thrown.
C10_UnknownCompany ==
    [][/\ (args'.fn = "Job.create" /\ NoSuchCompany(args'.data))
          => /\ jobs' = jobs
             /\ nextId' = nextId
             /\ nq' = 1
             /\ ~ret'.ok
             /\ ret'.code = "23503"
       /\ (/\ args'.fn = "POST /jobs"
           /\ args'.principal = "admin"
           /\ JobNewValid(args'.body)
           /\ NoSuchCompany(args'.body))
          => /\ jobs' = jobs
             /\ nextId' = nextId
             /\ nq' = 1
             /\ ret'.status = 404
             /\ ret'.message = "Job NOT created: companyHandle '"
                                  \o Concat(Prop(args'.body, "companyHandle").v)
                                  \o "' does not exist"
       /\ (/\ args'.fn = "POST /jobs"
           /\ args'.principal = "admin"
           /\ ~JobNewValid(args'.body))
          => /\ jobs' = jobs
             /\ nq' = 0
             /\ ret'.status = 400
             /\ ret'.passed = SchemaError]_vars

\* POST /jobs by an admin for the company f1, which does not exist
C10_Witness ==
    /\ args.fn = "POST /jobs"
    /\ args.principal = "admin"
    /\ Prop(args.body, "companyHandle") = Str(<<"f", "1">>)
    /\ "f1" \notin DOMAIN companies
    /\ ret.status = 404
    /\ ret.message = "Job NOT created: companyHandle 'f1' does not exist"
    /\ nq = 1
    /\ jobs = SeedJobs

(***************************************************************************)
(* Properties of the store under SpecStore.                                *)
(***************************************************************************)
\* C11: in every reachable state of the store, after any sequence of
\* creates, updates and removes of companies, jobs, users and applications,
\* every job's company_handle names an existing company and every
\* application's username and job id name an existing user and an existing
\* job.
C11_ReferentialIntegrity ==
    /\ \A id \in DOMAIN jobs : jobs[id].company_handle \in DOMAIN companies
    /\ \A a \in applications : a[1] \in DOMAIN users /\ a[2] \in DOMAIN jobs

\* a company was removed with a job applied to, while another company, its
\* job and the application to it stay
C11_Witness ==
    /\ args.fn = "Company.remove"
    /\ ret.ok
    /\ args.before.applications # applications
    /\ applications # {}
    /\ DOMAIN jobs # {}
    /\ DOMAIN companies # {}

\* C12: removing a company removes with it every job of the company and every
\* application to one of those jobs and leaves every other company, job,
\* user and application as it was; GET /companies/<handle> of a handle that
\* names no company answers 404 'No company: <handle>', a global job listing
\* holds no company but those of the store, and a user without an
\* application left is returned without a jobs list.
C12_CompanyCascade ==
    [][/\ (args'.fn = "Company.remove" /\ args'.handle \in DOMAIN companies)
          => LET own == {id \in DOMAIN jobs : jobs[id].company_handle = args'.handle} IN
             /\ ret'.ok
             /\ DOMAIN companies' = DOMAIN companies \ {args'.handle}
             /\ \A h \in DOMAIN companies' : companies'[h] = companies[h]
             /\ DOMAIN jobs' = DOMAIN jobs \ own
             /\ \A id \in DOMAIN jobs' : jobs'[id] = jobs[id]
             /\ applications' = {a \in applications : a[2] \notin own}
             /\ users' = users
       /\ (args'.fn = "GET /companies/:handle" /\ args'.handle \notin DOMAIN companies')
          => /\ ret'.status = 404
             /\ ret'.message = "No company: " \o args'.handle
       /\ (args'.fn = "Job.findAll" /\ ret'.ok)
          => \A i \in 1..Len(ret'.value) : ret'.value[i].handle \in DOMAIN companies'
       /\ (/\ args'.fn = "User.get"
           /\ args'.username \in DOMAIN users'
           /\ \A a \in applications' : a[1] # args'.username)
          => /\ ret'.ok
             /\ "jobs" \notin DOMAIN ret'.value]_vars

\* the company c1 was removed with its job and the application of u1 to
\* that job, while the company d1, its job and the application to it stay
C12_Witness ==
    /\ args.fn = "Company.remove"
    /\ args.handle = "c1"
    /\ ret.ok
    /\ \E id \in DOMAIN args.before.jobs :
            /\ args.before.jobs[id].company_handle = "c1"
            /\ <<"u1", id>> \in args.before.applications
            /\ id \notin DOMAIN jobs
            /\ <<"u1", id>> \notin applications
    /\ "c1" \notin DOMAIN companies
    /\ \E id \in DOMAIN jobs : jobs[id].company_handle = "d1" /\ <<"u1", id>> \in applications


(***************************************************************************)
(* Properties of Job.findAll and GET /jobs, under SpecFind.                *)
(***************************************************************************)
\* a text without its blanks
Stripped(cs) == SelectSeq(cs, LAMBDA c : c # " ")

\* text holds part somewhere, letter case aside
Contains(text, part) ==
    LET lower(cs) == [i \in 1..Len(cs) |-> LowerCase(cs[i])]
    IN \E i \in 1..(Len(text) - Len(part) + 1) :
            SubSeq(lower(text), i, i + Len(part) - 1) = lower(part)

\* the job row passes every filter of the mapping f: its title holds the
\* title text, its salary is at least minSalary, its equity is above zero
\* under a hasEquity that says true and is not null otherwise
Satisfies(job, f) ==
    /\ HasOwn(f, "title") => Contains(job.title.v, Stripped(Prop(f, "title").v))
    /\ HasOwn(f, "minSalary") =>
            /\ job.salary # Null
            /\ job.salary.v >= IntegerValue(Prop(f, "minSalary").v)
    /\ HasOwn(f, "hasEquity") =>
            /\ job.equity # Null
            /\ SaysTrue(Prop(f, "hasEquity")) => ~NumLeq(job.equity, Num(0))

\* the ids of the jobs of company h that pass the filters f
MatchingJobs(h, f) ==
    {id \in DOMAIN jobs : jobs[id].company_handle = h /\ Satisfies(jobs[id], f)}

\* the mapping holds at least one field, and recognized job fields only
JobFilters(f) == Len(f.v) > 0 /\ KeysOf(f.v) \subseteq Recognized.jobs

C14_CompanyWithFilteredJobs ==
    (/\ args.fn = "Job.findAll"
     /\ Returned
     /\ Truthy(args.handle)
     /\ Template(args.handle) \in DOMAIN companies)
    => /\ ret.ok
       /\ Len(ret.value) = 1
       /\ LET company == ret.value[1]
              stored == companies[Template(args.handle)]
              ids == MatchingJobs(Template(args.handle), args.filterValues)
          IN /\ DOMAIN company
                    = {"handle", "name", "numEmployees", "description", "logoUrl", "jobs"}
             /\ company.handle = Template(args.handle)
             /\ company.name = stored.name
             /\ company.numEmployees = stored.numEmployees
             /\ company.description = stored.description
             /\ company.logoUrl = stored.logoUrl
             /\ Len(company.jobs) = Cardinality(ids)
             /\ {company.jobs[k].id : k \in 1..Len(company.jobs)} = {Num(id) : id \in ids}

\* C15 as stated: a single-company lookup whose handle names no company
\* throws NotFoundError "No company: <handle>".
C15_UnknownCompanyLookup ==
    (/\ args.fn = "Job.findAll"
     /\ Returned
     /\ Truthy(args.handle)
     /\ Template(args.handle) \notin DOMAIN companies)
    => ret = Throw("NotFoundError", "No company: " \o Template(args.handle))

C17_UpdateMissingJob ==
    (/\ args.fn = "Job.update"
     /\ Returned
     /\ Len(args.data.v) > 0
     /\ args.id \notin DOMAIN SeedJobs)
    => /\ ret = Throw("NotFoundError", "No job: " \o Concat(DecimalText(args.id)))
       /\ jobs = SeedJobs
       /\ companies = SeedCompanies
       /\ users = SeedUsers
       /\ applications = {}

(***************************************************************************)
(* Properties of Job.remove, Job.get and DELETE /jobs/:id, under SpecStore. *)
(***************************************************************************)
\* "No job: <id>" as a NotFoundError
NoJob(id) == Throw("NotFoundError", "No job: " \o Concat(DecimalText(id)))

\* C18: Job.remove of an existing id deletes exactly that job and the
\* applications to it, and leaves every other job, application, company and
\* user unchanged; Job.remove of an id that matches no job throws
\* NotFoundError "No job: <id>" and leaves the store unchanged; Job.get of an
\* id that matches no job throws that error and an admin's DELETE /jobs/<id>
\* answers 404 with its message, which is the case of every removed id.
C18_JobRemove ==
    [][/\ (args'.fn = "Job.remove" /\ args'.id \in DOMAIN jobs)
            => /\ ret'.ok
               /\ DOMAIN jobs' = DOMAIN jobs \ {args'.id}
               /\ \A id \in DOMAIN jobs' : jobs'[id] = jobs[id]
               /\ applications' = {a \in applications : a[2] # args'.id}
               /\ companies' = companies
               /\ users' = users
       /\ (args'.fn = "Job.remove" /\ args'.id \notin DOMAIN jobs)
            => /\ ret' = NoJob(args'.id)
               /\ UNCHANGED <<companies, jobs, users, applications>>
       /\ (args'.fn = "Job.get" /\ args'.id \notin DOMAIN jobs)
            => ret' = NoJob(args'.id)
       /\ (/\ args'.fn = "DELETE /jobs/:id"
           /\ args'.principal = "admin"
           /\ args'.id \notin DOMAIN jobs)
            => /\ ret'.status = 404
               /\ ret'.message = "No job: " \o Concat(DecimalText(args'.id))
               /\ UNCHANGED <<companies, jobs, users, applications>>
      ]_vars

\* Job.remove has deleted job 1 and the application of u1 to it, and kept
\* job 2 and the application of u1 to job 2
C18_Witness ==
    /\ args.fn = "Job.remove"
    /\ args.id = 1
    /\ ret.ok
    /\ <<"u1", 1>> \in args.before.applications
    /\ <<"u1", 1>> \notin applications
    /\ <<"u1", 2>> \in applications
    /\ DOMAIN jobs = {2}


(***************************************************************************)
(* Properties of Job.get and of the returned equity, under SpecJob.        *)
(***************************************************************************)
\* C19: Job.get of the id of a job returns the job's id, title, salary and
\* equity under handle, name and numEmployees of the company that owns it;
\* Job.get of an id that matches no job throws NotFoundError "No job: <id>".
C19_JobGet ==
    (args.fn = "Job.get" /\ Returned)
    => IF args.id \in DOMAIN jobs
       THEN /\ ret.ok
            /\ ret.value
                = [handle |-> jobs[args.id].company_handle,
                   name |-> companies[jobs[args.id].company_handle].name,
                   numEmployees |-> companies[jobs[args.id].company_handle].numEmployees,
                   job |-> [id |-> Num(args.id),
                            title |-> jobs[args.id].title,
                            salary |-> jobs[args.id].salary,
                            equity |-> jobs[args.id].equity]]
       ELSE ret = Throw("NotFoundError", "No job: " \o Concat(DecimalText(args.id)))

\* Job.get has returned the created job 2 under company d1, the second
\* company of the store
C19_Witness ==
    /\ args.fn = "Job.get"
    /\ args.id = 2
    /\ ret.ok
    /\ ret.value.handle = "d1"
    /\ ret.value.name = Str(<<"D", "1">>)
    /\ ret.value.job.title = Str(<<"n", "e", "w">>)

\* the value is null or a number, and equal to the stored decimal
NormalizedEquity(x, stored) == x = stored /\ (x = Null \/ x.t = "number")

C21_OneApplicationPerPair ==
    [][(args'.fn = "User.applyForJob")
        => /\ (<<args'.username, args'.id>> \in applications)
                => /\ ret' = Throw("BadRequestError",
                                   "Duplicate username: " \o args'.username
                                        \o " has already applied for job "
                                        \o Concat(DecimalText(args'.id)))
                   /\ applications' = applications
           /\ (/\ <<args'.username, args'.id>> \notin applications
               /\ args'.username \in DOMAIN users
               /\ args'.id \in DOMAIN jobs)
                => /\ ret' = [ok |-> TRUE, value |-> [job_id |-> Num(args'.id)]]
                   /\ applications' = applications \cup {<<args'.username, args'.id>>}
                   /\ Cardinality(applications') = Cardinality(applications) + 1
      ]_vars

\* u1 has applied for job 1 a second time and was refused, the applications
\* of u1 to the jobs 1 and 2 standing
C21_Witness ==
    /\ args.fn = "User.applyForJob"
    /\ args.username = "u1"
    /\ args.id = 1
    /\ ~ret.ok
    /\ ret.error = "BadRequestError"
    /\ applications = {<<"u1", 1>>, <<"u1", 2>>}


(***************************************************************************)
(* Properties of the User model, under SpecUser.                           *)
(***************************************************************************)
\* C22: User.register with the username of a stored user throws
\* BadRequestError "Duplicate username: <username>" and leaves the users,
\* the password and the admin flag of that user among them, unchanged; with
\* a new username it adds exactly one user, the one registered.
C22_DuplicateUsername ==
    [][(args'.fn = "User.register")
        => LET username == Template(Prop(args'.data, "username")) IN
           IF username \in DOMAIN users
           THEN /\ ret' = Throw("BadRequestError", "Duplicate username: " \o username)
                /\ users' = users
           ELSE /\ ret'.ok
                /\ ret'.value.username = username
                /\ DOMAIN users' = DOMAIN users \cup {username}
                /\ \A u \in DOMAIN users : users'[u] = users[u]
                /\ users'[username].first_name = Prop(args'.data, "firstName")
                /\ users'[username].is_admin = Prop(args'.data, "isAdmin")
      ]_vars

\* the registration of u1 as an admin with another password was refused, and
\* u1 is stored as before, not an admin
C22_Witness ==
    /\ args.fn = "User.register"
    /\ Prop(args.data, "username") = Str(<<"u", "1">>)
    /\ Prop(args.data, "isAdmin") = Bool(TRUE)
    /\ Prop(args.data, "password") = Str(<<"p", "w">>)
    /\ ~ret.ok
    /\ users = args.before
    /\ users["u1"].is_admin = Bool(FALSE)
    /\ users["u1"].password = Str(<<"#", "p", "w", "1">>)

\* the user record has no password key, and none of its texts is the given
\* password, its hash, or the stored password of a user
NoPassword(user, given) ==
    /\ "password" \notin DOMAIN user
    /\ \A key \in DOMAIN user \ {"username", "jobs"} :
            /\ user[key] # given
            /\ given.t = "string" => user[key] # BcryptHash(given)
            /\ \A u \in DOMAIN users : user[key] # users[u].password

\* C23: what User.authenticate, User.register, User.findAll, User.get and
\* User.update return holds no password, neither the given one nor a stored
\* hash.
C23_NoPasswordReturned ==
    (Returned /\ ret.ok)
    => /\ (args.fn = "User.authenticate") => NoPassword(ret.value, args.password)
       /\ (args.fn \in {"User.register", "User.update"})
            => NoPassword(ret.value, Prop(args.data, "password"))
       /\ (args.fn = "User.get") => NoPassword(ret.value, Undefined)
       /\ (args.fn = "User.findAll")
            => \A i \in 1..Len(ret.value) : NoPassword(ret.value[i], Undefined)

\* u2, registered and given the password "pw", has authenticated with it
C23_Witness ==
    /\ args.fn = "User.authenticate"
    /\ args.username = "u2"
    /\ args.password = Str(<<"p", "w">>)
    /\ ret.ok
    /\ ret.value.username = "u2"
    /\ users["u2"].password = Str(<<"#", "p", "w">>)

\* C24 as stated: User.register and User.update store the hash of the
\* password they are given, never the given text: after a User.update whose
\* data holds a password, the stored password of the user is the hash of
\* that password, and every stored password is a hash.
C24_PasswordsHashed ==
    [][/\ (args'.fn = "User.register" /\ ret'.ok)
            => users'[ret'.value.username].password
                    = BcryptHash(Prop(args'.data, "password"))
       /\ (args'.fn = "User.update" /\ ret'.ok /\ HasOwn(args'.data, "password"))
            => /\ users'[args'.username].password
                    = BcryptHash(Prop(args'.data, "password"))
               /\ users'[args'.username].password # Prop(args'.data, "password")
       /\ (args'.fn = "User.update" /\ ~HasOwn(args'.data, "password"))
            => \A u \in DOMAIN users : users'[u].password = users[u].password
      ]_vars


(***************************************************************************)
(* Properties of POST /jobs, PATCH /jobs/:id and DELETE /jobs/:id, under   *)
(* SpecAdmin.                                                              *)
(***************************************************************************)
\* C25: POST /jobs, PATCH /jobs/:id and DELETE /jobs/:id requested by an
\* anonymous or a non-admin user answer 401 "Unauthorized", query nothing
\* and leave the store unchanged, whether or not the body is valid and the
\* id matches a job; so the store changes for an admin only.
C25_AdminOnly ==
    [][(/\ args'.fn \in {"POST /jobs", "PATCH /jobs/:id", "DELETE /jobs/:id"}
        /\ args'.principal # "admin")
        => /\ ret'.status = 401
           /\ ret'.message = "Unauthorized"
           /\ nq' = 0
           /\ UNCHANGED <<companies, jobs, users, applications, nextId>>
      ]_vars

\* a user who is no admin has sent a PATCH that names companyHandle for an
\* id that matches no job, and got 401
C25_Witness ==
    /\ args.fn = "PATCH /jobs/:id"
    /\ args.principal = "user"
    /\ args.id \notin DOMAIN jobs
    /\ HasOwn(args.body, "companyHandle")
    /\ ret.status = 401
    /\ DOMAIN jobs # {}

\* C26: no request changes the company or the id of a job: an admin's PATCH
\* /jobs/:id with id or companyHandle in the body answers 400 and leaves the
\* jobs unchanged, and a PATCH that answers 200 changes the given ones of
\* title, salary and equity of the job with that id and nothing else, and
\* returns the job's id and companyHandle as they were.
C26_IdAndCompanyImmutable ==
    [][/\ \A id \in DOMAIN jobs \cap DOMAIN jobs' :
            jobs'[id].company_handle = jobs[id].company_handle
       /\ (/\ args'.fn = "PATCH /jobs/:id"
           /\ args'.principal = "admin"
           /\ {"id", "companyHandle"} \cap KeysOf(args'.body.v) # {})
            => ret'.status = 400 /\ jobs' = jobs
       /\ (args'.fn = "PATCH /jobs/:id" /\ ret'.status = 200)
            => /\ args'.id \in DOMAIN jobs
               /\ DOMAIN jobs' = DOMAIN jobs
               /\ \A id \in DOMAIN jobs \ {args'.id} : jobs'[id] = jobs[id]
               /\ \A key \in {"title", "salary", "equity"} :
                    jobs'[args'.id][key]
                        = IF HasOwn(args'.body, key) THEN Prop(args'.body, key)
                          ELSE jobs[args'.id][key]
               /\ ret'.job.id = Num(args'.id)
               /\ ret'.job.companyHandle = jobs[args'.id].company_handle
               /\ UNCHANGED <<companies, users, applications, nextId>>
      ]_vars

\* an admin's PATCH of the salary and the equity of job 1 has answered 200,
\* the job being of company c1 with its title as seeded
C26_Witness ==
    /\ args.fn = "PATCH /jobs/:id"
    /\ args.principal = "admin"
    /\ args.id = 1
    /\ ret.status = 200
    /\ ret.job.companyHandle = "c1"
    /\ ret.job.salary = Num(2)
    /\ jobs[1].title = Str(<<"j", "1">>)
    /\ jobs[1].equity = Frac(0, 2)


(***************************************************************************)
(* The omitted column mapping, under SpecUpdate.                           *)
(***************************************************************************)
\* C27 as stated: sqlForPartialUpdate called with a non-empty update mapping
\* and no column mapping succeeds, every key being its own column name.
C27_MappingOptional ==
    (/\ args.fn = "sqlForPartialUpdate"
     /\ Returned
     /\ Len(args.dataToUpdate.v) > 0
     /\ args.jsToSql = Undefined)
    => /\ ret.ok
       /\ ret.setCols = Assignments(args.dataToUpdate, Obj(<<>>), 1)
       /\ ret.values = [i \in 1..Len(args.dataToUpdate.v) |-> args.dataToUpdate.v[i].v]

(***************************************************************************)
(* The empty listing and the caller's filter mapping, under SpecFind.      *)
(***************************************************************************)
\* C29 as stated: a global listing never throws NotFoundError "No company: ";
\* Job.findAll("", "", {}) on a store without jobs returns the empty list
\* and GET /jobs answers 200 with jobs [].
C29_EmptyListing ==
    /\ (/\ args.fn = "Job.findAll"
        /\ Returned
        /\ args.handle = Str(<<>>))
       => /\ ret # Throw("NotFoundError", "No company: ")
          /\ (args.filterValues = Obj(<<>>) /\ DOMAIN jobs = {})
                => ret = [ok |-> TRUE, value |-> <<>>]
    /\ (/\ args.fn = "GET /jobs"
        /\ Returned
        /\ args.query = Obj(<<>>)
        /\ DOMAIN jobs = {})
       => ret = [status |-> 200, jobs |-> <<>>]

C28_ConcurrentDuplicate ==
    (/\ args.pc = <<"done", "done">>
     /\ args.calls[1] = args.calls[2]
     /\ args.calls[1].username \in DOMAIN users
     /\ args.calls[1].id \in DOMAIN jobs
     /\ nq = 4)
    => /\ applications = {<<args.calls[1].username, args.calls[1].id>>}
       /\ \E p \in {1, 2} :
            /\ ret[p] = [ok |-> TRUE, value |-> [job_id |-> Num(args.calls[p].id)]]
            /\ ret[3 - p] = Throw("BadRequestError",
                                  "Duplicate username: " \o args.calls[p].username
                                    \o " has already applied for job "
                                    \o Concat(DecimalText(args.calls[p].id)))

====
